---------------------------- MODULE Spec2Model ----------------------------
(***************************************************************************)
(* A model of the crypto agents: the task registry (CryptoAgent), the      *)
(* automation rule engine (AutomationAgent) with its interval timers and   *)
(* asynchronous ticks, and the capability clients they call.               *)
(*                                                                         *)
(* JavaScript values are modelled as follows.  An object is a record; an   *)
(* optional property that is not set is a field the record does not have.  *)
(* null is the empty function <<>>.  A string is a TLA+ string.  A number   *)
(* handed in by a caller or by a capability client is an integer; the      *)
(* result of parseFloat is an exact decimal [num, den] or NaN.  An awaited  *)
(* call either fulfils, Ok(v), or rejects with an Error, Throw(message).    *)
(***************************************************************************)
EXTENDS Integers, Sequences, FiniteSets, TLC

VARIABLES
    call,            \* the executeTask invocation awaiting its handler, or NULL
    lastResult,      \* what the last executeTask invocation resolved to
    rules,           \* AutomationAgent.rules (slot for id i is rules[i + 1])
    activeMonitors,  \* AutomationAgent.activeMonitors: rule id -> timer handle
    timers,          \* the interval timers the runtime keeps firing
    nextTimer,       \* the handle the next setInterval returns
    ticks,           \* the tick callbacks in flight, oldest first
    stopped,         \* history: rule ids whose timer stopMonitoring cleared
    issued,          \* history: the ids addRule has returned, oldest first
    chat,            \* the command router constructed and the message it is handling
    lastOp           \* observation: the last operation, its input and outcome

vars == <<call, lastResult, rules, activeMonitors, timers, nextTimer, ticks,
          stopped, issued, chat, lastOp>>

engineVars == <<rules, activeMonitors, timers, nextTimer, ticks, stopped, issued>>
taskVars == <<call, lastResult, chat>>

-----------------------------------------------------------------------------
(* Bounds of the model. *)

MaxRules == 2
MaxInFlight == 1
MaxOverlap == 2

-----------------------------------------------------------------------------
(* JavaScript values. *)

NULL == <<>>
Undefined == "undefined"

Ok(v) == [ok |-> TRUE, value |-> v]
Throw(m) == [ok |-> FALSE, message |-> m]

Has(obj, field) == field \in DOMAIN obj

\* a property used as a condition: unset, 0 and NaN are falsy
Truthy(obj, field) == Has(obj, field) /\ obj[field] # 0

NaN == [nan |-> TRUE]
Dec(n, d) == [nan |-> FALSE, num |-> n, den |-> d]

Digits == <<"0", "1", "2", "3", "4", "5", "6", "7", "8", "9">>
IsDigit(c) == \E i \in 1..10 : Digits[i] = c
DigitVal(c) == (CHOOSE i \in 1..10 : Digits[i] = c) - 1

\* the length of the longest prefix of s made of digits
RECURSIVE DigitRun(_)
DigitRun(s) ==
    IF Len(s) = 0 \/ ~IsDigit(Head(s)) THEN 0 ELSE 1 + DigitRun(Tail(s))

\* the number a string of digits denotes, continuing from acc
RECURSIVE DigitsVal(_, _)
DigitsVal(s, acc) ==
    IF Len(s) = 0 THEN acc ELSE DigitsVal(Tail(s), 10 * acc + DigitVal(Head(s)))

RECURSIVE Pow10(_)
Pow10(k) == IF k = 0 THEN 1 ELSE 10 * Pow10(k - 1)

\* parseFloat on an unsigned decimal literal: digits, then optionally a point and digits
ParseUnsigned(s) ==
    LET ni == DigitRun(s)
        rest == SubSeq(s, ni + 1, Len(s))
        nf == IF Len(rest) > 0 /\ Head(rest) = "." THEN DigitRun(Tail(rest)) ELSE 0
    IN  IF ni = 0 /\ nf = 0 THEN NaN
        ELSE Dec(DigitsVal(SubSeq(s, 1, ni), 0) * Pow10(nf)
                   + DigitsVal(SubSeq(rest, 2, nf + 1), 0), Pow10(nf))

RECURSIVE TrimLeft(_)
TrimLeft(s) == IF Len(s) > 0 /\ Head(s) = " " THEN TrimLeft(Tail(s)) ELSE s

\* parseFloat(s): leading blanks skipped, a sign, the longest decimal prefix; else NaN
ParseFloat(s) ==
    LET t == TrimLeft(s)
    IN  IF Len(t) > 0 /\ Head(t) = "-"
        THEN LET u == ParseUnsigned(Tail(t))
             IN  IF u.nan THEN NaN ELSE Dec(0 - u.num, u.den)
        ELSE IF Len(t) > 0 /\ Head(t) = "+" THEN ParseUnsigned(Tail(t))
        ELSE ParseUnsigned(t)

\* x < y and x > y on numbers; a comparison with NaN is false
NumLt(x, y) == ~x.nan /\ ~y.nan /\ x.num * y.den < y.num * x.den
NumGt(x, y) == NumLt(y, x)

\* `${n}` for a whole number n
NumToString(n) == IF n < 0 THEN "-" \o ToString(0 - n) ELSE ToString(n)

\* s.split(':')
RECURSIVE SplitFrom(_, _)
SplitFrom(s, cur) ==
    IF Len(s) = 0 THEN <<cur>>
    ELSE IF Head(s) = ":" THEN <<cur>> \o SplitFrom(Tail(s), "")
    ELSE SplitFrom(Tail(s), cur \o Head(s))

Split(s) == SplitFrom(s, "")

\* array.slice(-n)
SliceLast(arr, n) ==
    IF Len(arr) <= n THEN arr ELSE SubSeq(arr, Len(arr) - n + 1, Len(arr))

-----------------------------------------------------------------------------
(* The capability clients.  Each takes what the network answered and gives *)
(* what the awaited call settles to.                                       *)

\* CryptoMarket.getPrice: http is what fetch settled to
getPrice(symbol, http) ==
    IF http.kind = "reject" THEN Throw(http.message)
    ELSE IF ~http.ok THEN Throw("Failed to fetch price data")
    ELSE IF ~Has(http.body, symbol)
         THEN Throw("Cannot read properties of undefined (reading 'usd')")
    ELSE Ok([price |-> http.body[symbol].usd,
             change24h |-> http.body[symbol].usd_24h_change,
             volume24h |-> http.body[symbol].usd_24h_vol,
             marketCap |-> http.body[symbol].usd_market_cap])

\* CryptoMarket.getTopCryptos
getTopCryptos(http) ==
    IF http.kind = "reject" THEN Throw(http.message)
    ELSE IF ~http.ok THEN Throw("Failed to fetch top cryptocurrencies")
    ELSE Ok(http.body)

\* CryptoMarket.getMarketStats
getMarketStats(http) ==
    IF http.kind = "reject" THEN Throw(http.message)
    ELSE IF ~http.ok THEN Throw("Failed to fetch market statistics")
    ELSE Ok(http.body)

\* CryptoWallet.getBalance, on a wallet that was never created or imported:
\* rpc is what provider.getBalance settled to, already formatted in ether
getBalance(address, rpc) ==
    IF address = "" \/ address = Undefined THEN Throw("No wallet address specified")
    ELSE IF ~rpc.ok THEN Throw(rpc.message)
    ELSE Ok(rpc.value)

\* TransactionManager.getTransactionHistory: rpc is what the block scan settled to
getTransactionHistory(address, rpc) ==
    IF ~rpc.ok THEN Throw(rpc.message)
    ELSE Ok(SelectSeq(rpc.value, LAMBDA tx : tx.from = address \/ tx.to = address))

\* TransactionManager.getTransactionStatus: rpc is the transaction and its receipt
getTransactionStatus(txHash, rpc) ==
    IF ~rpc.ok THEN Throw(rpc.message)
    ELSE IF rpc.value.tx = NULL THEN Ok("Not Found")
    ELSE IF rpc.value.receipt = NULL THEN Ok("Pending")
    ELSE IF rpc.value.receipt.status # 0 THEN Ok("Confirmed")
    ELSE Ok("Failed")

\* TransactionManager.getGasPrice: rpc is the gas price formatted in gwei
getGasPrice(rpc) == IF ~rpc.ok THEN Throw(rpc.message) ELSE Ok(rpc.value)

\* SmartContractManager.estimateContractGas: rpc is the estimate as a string
estimateContractGas(address, abi, method, args, rpc) ==
    IF ~rpc.ok THEN Throw(rpc.message) ELSE Ok(rpc.value)

-----------------------------------------------------------------------------
(* The task handlers of CryptoAgent.  env holds what each network call of   *)
(* the handler settles to; a handler gives Ok(value) or Throw(message).     *)

\* an analyzePriceMovement whose comparisons take the boundaries in
analyzePriceMovementNotStrict(priceData) ==
    IF priceData.change24h >= 5 THEN "Consider Taking Profits"
    ELSE IF priceData.change24h <= -5 THEN "Potential Buying Opportunity"
    ELSE "Market Stable"

analyzePriceMovement(priceData) ==
    IF priceData.change24h > 5 THEN "Consider Taking Profits"
    ELSE IF priceData.change24h < -5 THEN "Potential Buying Opportunity"
    ELSE "Market Stable"

checkPrice(params, env) ==
    LET priceData == getPrice(params.symbol, env.price)
    IN  IF ~priceData.ok THEN priceData
        ELSE Ok([price |-> priceData.value.price,
                 change24h |-> priceData.value.change24h,
                 recommendation |-> analyzePriceMovement(priceData.value)])

assessWalletSecurity(transactions) ==
    LET uniqueRecipients ==
            Cardinality({transactions[i].to : i \in DOMAIN transactions})
        largeTransactions ==
            Len(SelectSeq(transactions,
                          LAMBDA tx : NumGt(ParseFloat(tx.value), Dec(1, 1))))
    IN  IF uniqueRecipients > 10 /\ largeTransactions > 5
        THEN "High Activity - Enhanced Security Recommended"
        ELSE "Normal Activity"

monitorWallet(params, env) ==
    LET balance == getBalance(params.address, env.balance)
        transactions == getTransactionHistory(params.address, env.history)
    IN  IF ~balance.ok THEN balance
        ELSE IF ~transactions.ok THEN transactions
        ELSE Ok([balance |-> balance.value,
                 recentTransactions |-> SliceLast(transactions.value, 5),
                 securityStatus |-> assessWalletSecurity(transactions.value)])

\* an executeTrade that trades at the fetched price whatever the threshold
executeTradeUnchecked(params, env) ==
    LET currentPrice == getPrice(params.token, env.price)
    IN  IF ~currentPrice.ok THEN currentPrice
        ELSE Ok([type |-> params.type,
                 amount |-> params.amount,
                 token |-> params.token,
                 executionPrice |-> currentPrice.value.price,
                 timestamp |-> env.now])

executeTrade(params, env) ==
    LET currentPrice == getPrice(params.token, env.price)
    IN  IF ~currentPrice.ok THEN currentPrice
        ELSE IF Truthy(params, "priceThreshold") /\ params.type = "buy"
                /\ currentPrice.value.price > params.priceThreshold
        THEN Throw("Price above threshold")
        ELSE IF Truthy(params, "priceThreshold") /\ params.type = "sell"
                /\ currentPrice.value.price < params.priceThreshold
        THEN Throw("Price below threshold")
        ELSE Ok([type |-> params.type,
                 amount |-> params.amount,
                 token |-> params.token,
                 executionPrice |-> currentPrice.value.price,
                 timestamp |-> env.now])

\* insert x into a sequence sorted by descending 24h change, after its equals
RECURSIVE InsertDesc(_, _)
InsertDesc(x, sorted) ==
    IF sorted = <<>> THEN <<x>>
    ELSE IF x.price_change_percentage_24h > Head(sorted).price_change_percentage_24h
         THEN <<x>> \o sorted
    ELSE <<Head(sorted)>> \o InsertDesc(x, Tail(sorted))

RECURSIVE SortDesc(_)
SortDesc(arr) ==
    IF arr = <<>> THEN <<>>
    ELSE InsertDesc(arr[Len(arr)], SortDesc(SubSeq(arr, 1, Len(arr) - 1)))

identifyTopPerformers(cryptos) ==
    LET risers == SelectSeq(cryptos, LAMBDA c : c.price_change_percentage_24h > 0)
        sorted == SortDesc(risers)
    IN  SubSeq(sorted, 1, IF Len(sorted) < 3 THEN Len(sorted) ELSE 3)

calculateMarketSentiment(stats) ==
    IF stats.data.market_cap_change_percentage_24h_usd > 5 THEN "Bullish"
    ELSE IF stats.data.market_cap_change_percentage_24h_usd < -5 THEN "Bearish"
    ELSE "Neutral"

generateMarketRecommendations(cryptos, stats) ==
    LET sentiment == calculateMarketSentiment(stats)
    IN  IF sentiment = "Bullish" THEN <<"Consider increasing portfolio exposure">>
        ELSE IF sentiment = "Bearish" THEN <<"Consider reducing risk">>
        ELSE <<>>

analyzeMarket(params, env) ==
    LET topCryptos == getTopCryptos(env.top)
        marketStats == getMarketStats(env.stats)
    IN  IF ~topCryptos.ok THEN topCryptos
        ELSE IF ~marketStats.ok THEN marketStats
        ELSE Ok([topPerformers |-> identifyTopPerformers(topCryptos.value),
                 marketSentiment |-> calculateMarketSentiment(marketStats.value),
                 recommendations |->
                     generateMarketRecommendations(topCryptos.value, marketStats.value)])

provideTransactionInsights(status, gasPrice) ==
    IF status = "Pending" /\ NumGt(ParseFloat(gasPrice), Dec(100, 1))
    THEN "Consider increasing gas price for faster confirmation"
    ELSE "Transaction progressing normally"

trackTransaction(params, env) ==
    LET status == getTransactionStatus(params.txHash, env.status)
        gasPrice == getGasPrice(env.gas)
    IN  IF ~status.ok THEN status
        ELSE IF ~gasPrice.ok THEN gasPrice
        ELSE Ok([status |-> status.value,
                 gasPrice |-> gasPrice.value,
                 recommendation |->
                     provideTransactionInsights(status.value, gasPrice.value)])

InfiniteApproval == "0xffffffffffffffffffffffffffffffffffffffff"

validateHighRiskOperation(method, params) ==
    \* params[1] is the second argument; past the end it is undefined
    IF method = "approve" /\ Len(params) > 1 /\ params[2] = InfiniteApproval
    THEN Throw("Infinite approval detected - consider limiting approval amount")
    ELSE Ok(NULL)

validateContractInteraction(method, params) ==
    IF method \in {"transfer", "approve", "mint"}
    THEN validateHighRiskOperation(method, params)
    ELSE Ok(NULL)

calculateTransactionCost(gasEstimate) ==
    "Estimated cost: " \o gasEstimate \o " gas units"

interactWithContract(params, env) ==
    LET gasEstimate == estimateContractGas(params.address, params.abi,
                                           params.method, params.params, env.estimate)
        checked == validateContractInteraction(params.method, params.params)
    IN  IF ~gasEstimate.ok THEN gasEstimate
        ELSE IF ~checked.ok THEN checked
        ELSE Ok([gasEstimate |-> gasEstimate.value,
                 safetyCheck |-> "Passed",
                 estimatedCost |-> calculateTransactionCost(gasEstimate.value)])

-----------------------------------------------------------------------------
(* The task registry. *)

\* CryptoAgent.initializeTasks: the names the registry binds
RegisteredTasks ==
    {"check_price", "monitor_wallet", "execute_trade", "analyze_market",
     "track_transaction", "smart_contract_interaction"}

\* the handler a registered name is bound to, run to its settlement
RunHandler(taskName, params, env) ==
    CASE taskName = "check_price" -> checkPrice(params, env)
      [] taskName = "monitor_wallet" -> monitorWallet(params, env)
      [] taskName = "execute_trade" -> executeTrade(params, env)
      [] taskName = "analyze_market" -> analyzeMarket(params, env)
      [] taskName = "track_transaction" -> trackTransaction(params, env)
      [] taskName = "smart_contract_interaction" -> interactWithContract(params, env)

\* a not-found answer that leaves the name out of the message
TaskNotFoundUnnamed(taskName) == [success |-> FALSE, error |-> "Task not found"]

\* executeTask before any await: the lookup in the registry
TaskNotFound(taskName) ==
    [success |-> FALSE, error |-> "Task '" \o taskName \o "' not found"]

\* executeTask without its try/catch: a handler's error rejects the promise
SettleTaskRethrows(outcome) ==
    IF outcome.ok THEN Ok([success |-> TRUE, data |-> outcome.value])
    ELSE Throw(outcome.message)

\* a failure result that also carries a data property
SettleTaskKeepsData(outcome) ==
    IF outcome.ok THEN Ok([success |-> TRUE, data |-> outcome.value])
    ELSE Ok([success |-> FALSE, data |-> NULL, error |-> outcome.message])

\* executeTask after `await task(params)`: what the returned promise settles to
\* (Ok: fulfilled with a TaskResult; Throw: rejected)
SettleTask(outcome) ==
    IF outcome.ok THEN Ok([success |-> TRUE, data |-> outcome.value])
    ELSE Ok([success |-> FALSE, error |-> outcome.message])

\* CryptoAgent.executeTask as a whole
executeTask(taskName, params, env) ==
    IF taskName \notin RegisteredTasks THEN Ok(TaskNotFound(taskName))
    ELSE SettleTask(RunHandler(taskName, params, env))

-----------------------------------------------------------------------------
(* The inputs the model draws from: what callers pass and what the network  *)
(* answers.                                                                 *)

Symbols == {"eth", "a:b"}
Prices == {2500, 3000, 3500}
Changes == {-6, -5, 0, 5, 6}
Thresholds == {0, 3000}
Addresses == {"", "0xabc"}
Balances == {"1.0", "2.0", "3.0"}
FetchError == "fetch failed"
RpcError == "could not detect network"
Now == "2024-01-01T00:00:00.000Z"

\* what fetch can settle to for the price of symbol, the price among prices
\* and the 24h change among changes
PriceHttpOf(symbol, prices, changes) ==
    {[kind |-> "reject", message |-> FetchError],
     [kind |-> "response", ok |-> FALSE, body |-> NULL],
     [kind |-> "response", ok |-> TRUE, body |-> NULL]}
    \cup {[kind |-> "response", ok |-> TRUE,
           body |-> (symbol :> [usd |-> p, usd_24h_change |-> c,
                                usd_24h_vol |-> 1000, usd_market_cap |-> 1000000])]
          : p \in prices, c \in changes}

PriceHttpWith(symbol, changes) == PriceHttpOf(symbol, Prices, changes)

PriceHttp(symbol) == PriceHttpWith(symbol, Changes)

Asset(name, change) ==
    [id |-> name, symbol |-> name, price_change_percentage_24h |-> change]

TopHttp ==
    {[kind |-> "reject", message |-> FetchError],
     [kind |-> "response", ok |-> FALSE, body |-> NULL],
     [kind |-> "response", ok |-> TRUE, body |-> <<>>],
     [kind |-> "response", ok |-> TRUE,
      body |-> <<Asset("a", 1), Asset("b", -2), Asset("c", 7),
                 Asset("d", 3), Asset("e", 7), Asset("f", 0)>>],
     \* the body is untyped JSON: an entry may come without its symbol
     [kind |-> "response", ok |-> TRUE,
      body |-> <<[id |-> "g", price_change_percentage_24h |-> 4]>>]}

StatsHttp ==
    {[kind |-> "reject", message |-> FetchError],
     [kind |-> "response", ok |-> FALSE, body |-> NULL]}
    \cup {[kind |-> "response", ok |-> TRUE,
           body |-> [data |-> [total_market_cap |-> [usd |-> 1000000],
                               market_cap_change_percentage_24h_usd |-> c]]]
          : c \in Changes}

Tx(from, to, value) == [from |-> from, to |-> to, value |-> value]

\* n transfers out of "0xabc" to n recipients, the first k of them of 2 ether
Transfers(n, k) ==
    [i \in 1..n |-> Tx("0xabc", "0x" \o ToString(i), IF i <= k THEN "2.0" ELSE "0.5")]

HistoryRpc ==
    {Throw(RpcError), Ok(<<>>), Ok(Transfers(6, 6) \o <<Tx("0xdef", "0xdef", "9.0")>>),
     Ok(Transfers(11, 6)), Ok(Transfers(11, 5)), Ok(Transfers(10, 6))}

BalanceRpc == {Throw(RpcError)} \cup {Ok(b) : b \in Balances}

StatusRpc ==
    {Throw(RpcError),
     Ok([tx |-> NULL, receipt |-> NULL]),
     Ok([tx |-> [hash |-> "0x1"], receipt |-> NULL]),
     Ok([tx |-> [hash |-> "0x1"], receipt |-> [status |-> 1]]),
     Ok([tx |-> [hash |-> "0x1"], receipt |-> [status |-> 0]])}

GasRpc == {Throw(RpcError), Ok("50.0"), Ok("150.5")}

EstimateRpc == {Throw("execution reverted"), Ok("21000")}

\* what the network calls of a handler can settle to
Envs(taskName, params) ==
    CASE taskName = "check_price" ->
             {[price |-> h] : h \in PriceHttp(params.symbol)}
      [] taskName = "monitor_wallet" ->
             {[balance |-> b, history |-> h] : b \in BalanceRpc, h \in HistoryRpc}
      [] taskName = "execute_trade" ->
             {[price |-> h, now |-> Now] : h \in PriceHttp(params.token)}
      [] taskName = "analyze_market" ->
             {[top |-> t, stats |-> st] : t \in TopHttp, st \in StatsHttp}
      [] taskName = "track_transaction" ->
             {[status |-> st, gas |-> g] : st \in StatusRpc, g \in GasRpc}
      [] taskName = "smart_contract_interaction" ->
             {[estimate |-> e] : e \in EstimateRpc}

TradeParams ==
    {[type |-> ty, amount |-> "0.1", token |-> s] : ty \in {"buy", "sell"}, s \in Symbols}
    \cup {[type |-> ty, amount |-> "0.1", token |-> s, priceThreshold |-> th]
          : ty \in {"buy", "sell"}, s \in Symbols, th \in Thresholds}

ContractParams ==
    {[address |-> "0xc0", abi |-> <<>>, method |-> m, params |-> a]
     : m \in {"approve", "transfer", "balanceOf"},
       a \in {<<InfiniteApproval, "100">>, <<"0xabc", InfiniteApproval>>,
              <<"0xabc", "100">>, <<"0xabc">>}}

\* the params a caller passes with each task name
ParamsOf(taskName) ==
    CASE taskName = "check_price" -> {[symbol |-> s] : s \in Symbols}
      [] taskName = "monitor_wallet" -> {[address |-> a] : a \in Addresses}
      [] taskName = "execute_trade" -> TradeParams
      [] taskName = "analyze_market" -> {NULL}
      [] taskName = "track_transaction" -> {[txHash |-> "0x1"]}
      [] taskName = "smart_contract_interaction" -> ContractParams
      [] OTHER -> {NULL, [symbol |-> "eth"]}

\* what the price request of a tick can settle to: a tick reads the price
\* only, so one 24h change and one way of failing are drawn
TickPriceHttp(symbol) ==
    {h \in PriceHttpWith(symbol, {0}) : h.kind = "reject" \/ h.body # NULL}

\* what the network calls of a tick's task can settle to: a wallet tick
\* reads the balance, so two histories are drawn
TickEnvs(taskName, params) ==
    CASE taskName = "check_price" ->
             {[price |-> h] : h \in TickPriceHttp(params.symbol)}
      [] taskName = "execute_trade" ->
             {[price |-> h, now |-> Now] : h \in TickPriceHttp(params.token)}
      [] taskName = "monitor_wallet" ->
             {[balance |-> b, history |-> h]
              : b \in BalanceRpc, h \in {Throw(RpcError), Ok(<<>>)}}
      [] OTHER -> Envs(taskName, params)

TaskNames == RegisteredTasks \cup {"", "unknown_task", "checkPrice"}

-----------------------------------------------------------------------------
(* The registry called directly: executeTask(taskName, params). *)

Init ==
    /\ call = NULL
    /\ lastResult = NULL
    /\ rules = <<>>
    /\ activeMonitors = <<>>
    /\ timers = {}
    /\ nextTimer = 1
    /\ ticks = <<>>
    /\ stopped = {}
    /\ issued = <<>>
    /\ chat = [router |-> "none", pending |-> NULL]
    /\ lastOp = [op |-> "init"]

\* executeTask up to its first await: an unknown name is answered at once,
\* a known one invokes its handler, which suspends on a capability client
ExecuteTaskCall(taskName, params) ==
    /\ call = NULL
    /\ IF taskName \notin RegisteredTasks
       THEN /\ call' = NULL
            /\ lastResult' = Ok(TaskNotFound(taskName))
            /\ lastOp' = [op |-> "executeTask", task |-> taskName, params |-> params,
                          invoked |-> FALSE, settled |-> Ok(TaskNotFound(taskName))]
       ELSE /\ call' = [task |-> taskName, params |-> params]
            /\ lastResult' = lastResult
            /\ lastOp' = [op |-> "executeTaskCall", task |-> taskName, params |-> params]
    /\ UNCHANGED <<engineVars, chat>>

\* the handler's network calls settle and executeTask wraps the outcome
ExecuteTaskSettle(env) ==
    /\ call # NULL
    /\ call' = NULL
    /\ lastResult' = SettleTask(RunHandler(call.task, call.params, env))
    /\ lastOp' = [op |-> "executeTask", task |-> call.task, params |-> call.params,
                  invoked |-> TRUE, env |-> env,
                  outcome |-> RunHandler(call.task, call.params, env),
                  settled |-> SettleTask(RunHandler(call.task, call.params, env))]
    /\ UNCHANGED <<engineVars, chat>>

NextTask ==
    \/ \E taskName \in TaskNames : \E params \in ParamsOf(taskName) :
           ExecuteTaskCall(taskName, params)
    \/ \E env \in (IF call = NULL THEN {} ELSE Envs(call.task, call.params)) :
           ExecuteTaskSettle(env)

TaskSpec == Init /\ [][NextTask]_vars

-----------------------------------------------------------------------------
(* The rule engine's storage and timers.  An engine state st is the record  *)
(* [rules, activeMonitors, timers, nextTimer]; an operation gives the state *)
(* after it and, where it returns one, its return value.                    *)

Engine == [rules |-> rules, activeMonitors |-> activeMonitors,
           timers |-> timers, nextTimer |-> nextTimer]

\* this.rules[ruleId] for an integer id: undefined past the ends, read as null
RuleAt(rs, ruleId) == IF ruleId + 1 \in DOMAIN rs THEN rs[ruleId + 1] ELSE NULL

\* map.delete(key)
MapDelete(map, key) == [k \in DOMAIN map \ {key} |-> map[k]]

\* map.set(key, value)
MapSet(map, key, value) ==
    [k \in DOMAIN map \cup {key} |-> IF k = key THEN value ELSE map[k]]

\* AutomationAgent.startMonitoring: setInterval hands out a fresh handle, and
\* the callback keeps the rule object it was started with
startMonitoring(st, ruleId) ==
    LET rule == RuleAt(st.rules, ruleId)
    IN  IF rule = NULL \/ ~Truthy(rule, "interval") THEN st
        ELSE [st EXCEPT
                 !.timers = @ \cup {[handle |-> st.nextTimer, ruleId |-> ruleId,
                                     rule |-> rule]},
                 !.nextTimer = @ + 1,
                 !.activeMonitors = MapSet(@, ruleId, st.nextTimer)]

\* a stopMonitoring that forgets the map entry's timer: no clearInterval
stopMonitoringKeepsTimer(st, ruleId) ==
    IF ruleId \in DOMAIN st.activeMonitors
    THEN [st EXCEPT !.activeMonitors = MapDelete(@, ruleId)]
    ELSE st

\* AutomationAgent.stopMonitoring
stopMonitoring(st, ruleId) ==
    IF ruleId \in DOMAIN st.activeMonitors
    THEN [st EXCEPT
             !.timers = {t \in @ : t.handle # st.activeMonitors[ruleId]},
             !.activeMonitors = MapDelete(@, ruleId)]
    ELSE st

\* an addRule that numbers a rule by the count of active rules
addRuleCountsActive(st, rule) ==
    LET ruleId == Len(SelectSeq(st.rules, LAMBDA r : r # NULL))
        pushed == [st EXCEPT !.rules = Append(@, rule)]
    IN  [st |-> IF Truthy(rule, "interval") THEN startMonitoring(pushed, Len(st.rules))
                ELSE pushed,
         ret |-> ruleId]

\* AutomationAgent.addRule
addRule(st, rule) ==
    LET ruleId == Len(st.rules)
        pushed == [st EXCEPT !.rules = Append(@, rule)]
    IN  [st |-> IF Truthy(rule, "interval") THEN startMonitoring(pushed, ruleId)
                ELSE pushed,
         ret |-> ruleId]

\* a removeRule that splices the slot out instead of nulling it
removeRuleCompacts(st, ruleId) ==
    IF ruleId >= 0 /\ ruleId < Len(st.rules)
    THEN [st |-> stopMonitoring(
                     [st EXCEPT !.rules = SubSeq(@, 1, ruleId)
                                          \o SubSeq(@, ruleId + 2, Len(@))], ruleId),
          ret |-> TRUE]
    ELSE [st |-> st, ret |-> FALSE]

\* a removeRule whose range check admits ruleId = length: the assignment
\* then grows the array by a null slot
removeRuleOffByOne(st, ruleId) ==
    IF ruleId >= 0 /\ ruleId <= Len(st.rules)
    THEN [st |-> stopMonitoring(
                     [st EXCEPT !.rules = IF ruleId = Len(@) THEN Append(@, NULL)
                                          ELSE [@ EXCEPT ![ruleId + 1] = NULL]], ruleId),
          ret |-> TRUE]
    ELSE [st |-> st, ret |-> FALSE]

\* a removeRule that nulls the slot and leaves the rule's timer running
removeRuleKeepsMonitor(st, ruleId) ==
    IF ruleId >= 0 /\ ruleId < Len(st.rules)
    THEN [st |-> [st EXCEPT !.rules[ruleId + 1] = NULL], ret |-> TRUE]
    ELSE [st |-> st, ret |-> FALSE]

\* a removeRule that clears every rule's timer, not only the removed rule's
removeRuleStopsEveryMonitor(st, ruleId) ==
    IF ruleId >= 0 /\ ruleId < Len(st.rules)
    THEN [st |-> [st EXCEPT !.rules[ruleId + 1] = NULL,
                            !.timers = {},
                            !.activeMonitors = [k \in {} |-> @[k]]],
          ret |-> TRUE]
    ELSE [st |-> st, ret |-> FALSE]

\* AutomationAgent.removeRule
removeRule(st, ruleId) ==
    IF ruleId >= 0 /\ ruleId < Len(st.rules)
    THEN [st |-> stopMonitoring([st EXCEPT !.rules[ruleId + 1] = NULL], ruleId),
          ret |-> TRUE]
    ELSE [st |-> st, ret |-> FALSE]

\* a getActiveRules that filters before it numbers the entries
getActiveRulesRenumbers(rs) ==
    LET kept == SelectSeq(rs, LAMBDA r : r # NULL)
    IN  [i \in 1..Len(kept) |-> [ruleId |-> i - 1, rule |-> kept[i]]]

\* AutomationAgent.getActiveRules
getActiveRules(rs) ==
    SelectSeq([i \in 1..Len(rs) |-> [ruleId |-> i - 1, rule |-> rs[i]]],
              LAMBDA e : e.rule # NULL)

\* the keys of the monitor map in the order forEach visits them (insertion
\* order, which is ascending: a key is only ever set for the newest rule id)
RECURSIVE KeysAscending(_)
KeysAscending(keys) ==
    IF keys = {} THEN <<>>
    ELSE LET least == CHOOSE k \in keys : \A other \in keys : k <= other
         IN  <<least>> \o KeysAscending(keys \ {least})

RECURSIVE StopEach(_, _)
StopEach(st, ids) ==
    IF ids = <<>> THEN st ELSE StopEach(stopMonitoring(st, Head(ids)), Tail(ids))

\* a stopAllMonitoring whose iteration ends at the first entry it deletes
stopAllMonitoringFirstOnly(st) ==
    IF DOMAIN st.activeMonitors = {} THEN st
    ELSE stopMonitoring(st, Head(KeysAscending(DOMAIN st.activeMonitors)))

\* AutomationAgent.stopAllMonitoring
stopAllMonitoring(st) == StopEach(st, KeysAscending(DOMAIN st.activeMonitors))

\* AutomationAgent.setupPriceAlert; interval is <<>> when the caller leaves it out
priceAlertRule(symbol, threshold, interval) ==
    [condition |-> "price_below_threshold:" \o symbol \o ":" \o NumToString(threshold),
     action |-> "execute_trade",
     params |-> [type |-> "buy", amount |-> "0.1", token |-> symbol,
                 priceThreshold |-> threshold],
     interval |-> IF interval = <<>> THEN 60000 ELSE interval[1]]

\* AutomationAgent.setupWalletMonitor
walletMonitorRule(address, minBalance, interval) ==
    [condition |-> "wallet_balance_above:" \o address \o ":" \o minBalance,
     action |-> "monitor_wallet",
     params |-> [address |-> address],
     interval |-> IF interval = <<>> THEN 300000 ELSE interval[1]]

\* a setupMarketAnalysis whose condition is one evaluateCondition knows
marketAnalysisRuleOnPrice(interval) ==
    [condition |-> "price_below_threshold:eth:3000",
     action |-> "analyze_market",
     params |-> NULL,
     interval |-> IF interval = <<>> THEN 3600000 ELSE interval[1]]

\* AutomationAgent.setupMarketAnalysis
marketAnalysisRule(interval) ==
    [condition |-> "market_analysis",
     action |-> "analyze_market",
     params |-> NULL,
     interval |-> IF interval = <<>> THEN 3600000 ELSE interval[1]]

-----------------------------------------------------------------------------
(* One tick: the interval callback running evaluateRule on its rule. *)

\* parts[i] of a split string, 0-based
Part(parts, i) == IF i + 1 \in DOMAIN parts THEN parts[i + 1] ELSE Undefined

\* an evaluateCondition whose switch sends an unknown type to the price case
conditionCallFallsThrough(condition) ==
    LET parts == Split(condition)
    IN  IF Part(parts, 0) = "wallet_balance_above"
        THEN <<[task |-> "monitor_wallet", params |-> [address |-> Part(parts, 1)]]>>
        ELSE <<[task |-> "check_price", params |-> [symbol |-> Part(parts, 1)]]>>

\* AutomationAgent.evaluateCondition up to its await: the executeTask call it
\* makes, or <<>> for a condition type it does not know (it then returns false)
conditionCall(condition) ==
    LET parts == Split(condition)
    IN  IF Part(parts, 0) = "price_below_threshold"
        THEN <<[task |-> "check_price", params |-> [symbol |-> Part(parts, 1)]]>>
        ELSE IF Part(parts, 0) = "wallet_balance_above"
        THEN <<[task |-> "monitor_wallet", params |-> [address |-> Part(parts, 1)]]>>
        ELSE <<>>

\* an evaluateCondition that takes a failed check for a met condition
conditionResultIgnoresFailure(condition, settled) ==
    LET parts == Split(condition)
    IN  IF ~settled.ok THEN settled
        ELSE IF Part(parts, 0) = "price_below_threshold"
        THEN Ok(~settled.value.success
                \/ NumLt(Dec(settled.value.data.price, 1), ParseFloat(Part(parts, 2))))
        ELSE Ok(~settled.value.success
                \/ NumGt(ParseFloat(settled.value.data.balance),
                         ParseFloat(Part(parts, 2))))

\* an evaluateCondition whose price comparison is <= instead of <
conditionResultPriceNotStrict(condition, settled) ==
    LET parts == Split(condition)
        limit == ParseFloat(Part(parts, 2))
    IN  IF ~settled.ok THEN settled
        ELSE IF Part(parts, 0) = "price_below_threshold"
        THEN Ok(settled.value.success
                /\ ~limit.nan
                /\ settled.value.data.price * limit.den <= limit.num)
        ELSE Ok(settled.value.success
                /\ NumGt(ParseFloat(settled.value.data.balance),
                         ParseFloat(Part(parts, 2))))

\* an evaluateCondition whose balance comparison is >= instead of >
conditionResultBalanceNotStrict(condition, settled) ==
    LET parts == Split(condition)
    IN  IF ~settled.ok THEN settled
        ELSE IF Part(parts, 0) = "price_below_threshold"
        THEN Ok(settled.value.success
                /\ NumLt(Dec(settled.value.data.price, 1), ParseFloat(Part(parts, 2))))
        ELSE Ok(settled.value.success
                /\ ~NumLt(ParseFloat(settled.value.data.balance),
                          ParseFloat(Part(parts, 2))))

\* AutomationAgent.evaluateCondition after its await: settled is what the
\* executeTask promise settled to
conditionResult(condition, settled) ==
    LET parts == Split(condition)
    IN  IF ~settled.ok THEN settled
        ELSE IF Part(parts, 0) = "price_below_threshold"
        THEN Ok(settled.value.success
                /\ NumLt(Dec(settled.value.data.price, 1), ParseFloat(Part(parts, 2))))
        ELSE Ok(settled.value.success
                /\ NumGt(ParseFloat(settled.value.data.balance),
                         ParseFloat(Part(parts, 2))))

-----------------------------------------------------------------------------
(* The rule engine: its operations and the ticks of its timers. *)

AlertThresholds == {3000}
Intervals == {<<>>, <<0>>}

\* the rule a caller hands to addRule directly: it names no interval
RuleInputs ==
    {[condition |-> "price_below_threshold:eth:3000", action |-> "check_price",
      params |-> [symbol |-> "eth"]]}

\* rules whose condition type or whose action the engine does not know
ConditionRules ==
    {[condition |-> "bogus_condition:x:y", action |-> "check_price",
      params |-> [symbol |-> "eth"], interval |-> 1000],
     [condition |-> "price_below_threshold:eth:3000", action |-> "no_such_task",
      params |-> NULL, interval |-> 1000]}

\* the engine takes the state an operation left and notes which timers it cleared
Becomes(st) ==
    /\ rules' = st.rules
    /\ activeMonitors' = st.activeMonitors
    /\ timers' = st.timers
    /\ nextTimer' = st.nextTimer
    /\ stopped' = stopped \cup (DOMAIN activeMonitors \ DOMAIN st.activeMonitors)

Added(rule, via) ==
    /\ Len(rules) < MaxRules
    /\ Becomes(addRule(Engine, rule).st)
    /\ issued' = Append(issued, addRule(Engine, rule).ret)
    /\ lastOp' = [op |-> "addRule", via |-> via, rule |-> rule,
                  ret |-> addRule(Engine, rule).ret]
    /\ UNCHANGED <<ticks, taskVars>>

AddRule(rule) == Added(rule, "addRule")

SetupPriceAlert(symbol, threshold, interval) ==
    Added(priceAlertRule(symbol, threshold, interval), "setupPriceAlert")

SetupWalletMonitor(address, minBalance, interval) ==
    Added(walletMonitorRule(address, minBalance, interval), "setupWalletMonitor")

SetupMarketAnalysis(interval) ==
    Added(marketAnalysisRule(interval), "setupMarketAnalysis")

\* a removeRule that also abandons the ticks in flight of the rule's timer
RemoveRuleDropsTicks(ruleId) ==
    /\ Becomes(removeRule(Engine, ruleId).st)
    /\ lastOp' = [op |-> "removeRule", ruleId |-> ruleId,
                  ret |-> removeRule(Engine, ruleId).ret]
    /\ ticks' = SelectSeq(ticks, LAMBDA tk : \E t \in removeRule(Engine, ruleId).st.timers :
                                                 t.handle = tk.timer)
    /\ UNCHANGED <<issued, taskVars>>

RemoveRule(ruleId) ==
    /\ Becomes(removeRule(Engine, ruleId).st)
    /\ lastOp' = [op |-> "removeRule", ruleId |-> ruleId,
                  ret |-> removeRule(Engine, ruleId).ret]
    /\ UNCHANGED <<ticks, issued, taskVars>>

StopAllMonitoring ==
    /\ Becomes(stopAllMonitoring(Engine))
    /\ lastOp' = [op |-> "stopAllMonitoring", live |-> DOMAIN activeMonitors]
    /\ UNCHANGED <<ticks, issued, taskVars>>

\* a caller reads the stored rules
GetActiveRules ==
    /\ lastOp' = [op |-> "getActiveRules", ret |-> getActiveRules(rules)]
    /\ UNCHANGED <<engineVars, taskVars>>

\* the price a price client call reported, if it reported one
Reported(wait, env) ==
    IF wait.task \in {"check_price", "execute_trade"}
       /\ getPrice(IF wait.task = "check_price" THEN wait.params.symbol
                   ELSE wait.params.token, env.price).ok
    THEN <<getPrice(IF wait.task = "check_price" THEN wait.params.symbol
                    ELSE wait.params.token, env.price).value.price>>
    ELSE <<>>

\* the callback returns: evaluateRule has run to its end.  The observation
\* keeps the tasks the tick invoked, the prices it was reported, the
\* TaskResult of its condition's task (checked) and of its action (result),
\* whether the condition was met and whether evaluateRule caught an error.
TickDone(tk, met, caught, result) ==
    [op |-> "tickDone", timer |-> tk.timer, rule |-> tk.rule,
     invoked |-> tk.invoked, reported |-> tk.reported, checked |-> tk.checked,
     met |-> met, caught |-> caught, result |-> result, again |-> tk.again]

\* a tick in which the condition's task or the action's task failed, or an
\* error was caught
TickFailed(done) ==
    \/ done.caught
    \/ done.checked # <<>> /\ ~done.checked[1].success
    \/ done.result # <<>> /\ ~done.result[1].success

Without(seq, i) == SubSeq(seq, 1, i - 1) \o SubSeq(seq, i + 1, Len(seq))

\* evaluateRule from `if (conditionMet)` on, the condition having given met
\* (Ok(boolean), or Throw for an error raised while evaluating)
AfterCondition(i, tk, met) ==
    IF ~met.ok
    THEN \* caught by evaluateRule and logged
         /\ ticks' = Without(ticks, i)
         /\ lastOp' = TickDone(tk, FALSE, TRUE, <<>>)
    ELSE IF ~met.value
    THEN /\ ticks' = Without(ticks, i)
         /\ lastOp' = TickDone(tk, FALSE, FALSE, <<>>)
    ELSE LET act == [task |-> tk.rule.action, params |-> tk.rule.params]
             went == [tk EXCEPT !.invoked = Append(@, act)]
         IN  IF tk.rule.action \notin RegisteredTasks
             THEN /\ ticks' = Without(ticks, i)
                  /\ lastOp' = TickDone(went, TRUE, FALSE,
                                        <<TaskNotFound(tk.rule.action)>>)
             ELSE /\ ticks' = [ticks EXCEPT ![i] = [went EXCEPT !.pc = "action",
                                                                !.wait = act]]
                  /\ lastOp' = [op |-> "tickAction", timer |-> tk.timer]

\* a tick of timer t has just ended with its action carried out
JustActed(t) ==
    /\ lastOp.op = "tickDone"
    /\ lastOp.timer = t.handle
    /\ lastOp.result # <<>>
    /\ lastOp.result[1].success

\* a timer fires while fewer than limit ticks are in flight: the callback
\* runs evaluateRule up to its first await.  Where noting is set the tick is
\* marked when it follows a tick of the same timer that carried out the action.
FireNoting(t, limit, noting) ==
    /\ t \in timers
    /\ Len(ticks) < limit
    /\ LET req == conditionCall(t.rule.condition)
           tk == [timer |-> t.handle, rule |-> t.rule, pc |-> "condition",
                  wait |-> IF req = <<>> THEN NULL ELSE req[1],
                  invoked |-> req, reported |-> <<>>, checked |-> <<>>,
                  hangs |-> FALSE, again |-> noting /\ JustActed(t)]
       IN  IF req = <<>>
           THEN /\ ticks' = ticks
                /\ lastOp' = TickDone(tk, FALSE, FALSE, <<>>)
           ELSE /\ ticks' = Append(ticks, tk)
                /\ lastOp' = [op |-> "tickStart", timer |-> t.handle,
                              afterFailure |-> /\ lastOp.op = "tickDone"
                                               /\ lastOp.timer = t.handle
                                               /\ TickFailed(lastOp)]
    /\ UNCHANGED <<rules, activeMonitors, timers, nextTimer, stopped, issued, taskVars>>

Fire(t, limit) == FireNoting(t, limit, FALSE)

TickStart(t) == Fire(t, MaxInFlight)

\* a timer that no longer fires once its rule's action has been carried out
TickStartOnce(t) ==
    /\ ~JustActed(t)
    /\ FireNoting(t, MaxInFlight, TRUE)

\* a timer fires, the tick marked when it follows one that acted
TickStartAgain(t) == FireNoting(t, MaxInFlight, TRUE)

\* a tick-start that waits for the rule's earlier ticks to end
TickStartSerialized(t) ==
    /\ \A i \in DOMAIN ticks : ticks[i].timer # t.handle
    /\ Fire(t, MaxOverlap)

\* a tick-start that waits for every tick in flight to end
TickStartBlocked(t) ==
    /\ \A i \in DOMAIN ticks : ~ticks[i].hangs
    /\ Fire(t, MaxOverlap)

\* a timer fires in an engine that lets MaxOverlap ticks be in flight
TickStartOverlap(t) == Fire(t, MaxOverlap)

\* the network call tick i awaits turns out never to complete
TickHang(i) ==
    /\ i \in DOMAIN ticks
    /\ ~ticks[i].hangs
    /\ ticks' = [ticks EXCEPT ![i].hangs = TRUE]
    /\ lastOp' = [op |-> "tickHang", timer |-> ticks[i].timer]
    /\ UNCHANGED <<rules, activeMonitors, timers, nextTimer, stopped, issued, taskVars>>

\* the executeTask call tick i awaits settles, and the tick runs on to its
\* next await or to its end
TickSettle(i, env) ==
    /\ i \in DOMAIN ticks
    /\ ~ticks[i].hangs
    /\ LET settled == executeTask(ticks[i].wait.task, ticks[i].wait.params, env)
           tk == [ticks[i] EXCEPT
                     !.reported = @ \o Reported(ticks[i].wait, env),
                     !.checked = IF ticks[i].pc = "condition" /\ settled.ok
                                 THEN <<settled.value>> ELSE @]
       IN  IF tk.pc = "condition"
           THEN AfterCondition(i, tk, conditionResult(tk.rule.condition, settled))
           ELSE /\ ticks' = Without(ticks, i)
                /\ lastOp' = IF settled.ok
                             THEN TickDone(tk, TRUE, FALSE, <<settled.value>>)
                             ELSE TickDone(tk, TRUE, TRUE, <<>>)
    /\ UNCHANGED <<rules, activeMonitors, timers, nextTimer, stopped, issued, taskVars>>

\* the calls that change no rule, and the timers and awaited calls of the rules
Run ==
    \/ \E ruleId \in -1..MaxRules : RemoveRule(ruleId)
    \/ StopAllMonitoring
    \/ GetActiveRules
    \/ \E t \in timers : TickStart(t)
    \/ \E i \in DOMAIN ticks :
           \E env \in TickEnvs(ticks[i].wait.task, ticks[i].wait.params) :
               TickSettle(i, env)

\* an engine whose callers set up price alerts and add a rule without interval
Next ==
    \/ \E rule \in RuleInputs : AddRule(rule)
    \/ \E symbol \in Symbols, threshold \in AlertThresholds :
           SetupPriceAlert(symbol, threshold, <<>>)
    \/ \E threshold \in AlertThresholds, interval \in Intervals \ {<<>>} :
           SetupPriceAlert("eth", threshold, interval)
    \/ Run

Spec == Init /\ [][Next]_vars

\* an engine whose callers set up the wallet monitor, the market analysis and
\* rules of unknown condition type or action
NextCondition ==
    \/ \E rule \in ConditionRules : AddRule(rule)
    \/ SetupWalletMonitor("0xabc", "2.0", <<>>)
    \/ SetupMarketAnalysis(<<>>)
    \/ Run

ConditionSpec == Init /\ [][NextCondition]_vars

\* an engine with price alerts on one symbol whose ticks overlap and in which
\* the oldest network call in flight may never complete
NextOverlap ==
    \/ \E threshold \in AlertThresholds : SetupPriceAlert("eth", threshold, <<>>)
    \/ \E ruleId \in 0..(Len(rules) - 1) : RemoveRule(ruleId)
    \/ GetActiveRules
    \/ \E t \in timers : TickStartOverlap(t)
    \/ TickHang(1)
    \/ \E i \in DOMAIN ticks :
           \E env \in TickEnvs(ticks[i].wait.task, ticks[i].wait.params) :
               TickSettle(i, env)

OverlapSpec == Init /\ [][NextOverlap]_vars

\* an engine with price alerts on one symbol whose ticks follow one another
NextRepeat ==
    \/ \E threshold \in AlertThresholds : SetupPriceAlert("eth", threshold, <<>>)
    \/ \E ruleId \in 0..(Len(rules) - 1) : RemoveRule(ruleId)
    \/ StopAllMonitoring
    \/ \E t \in timers : TickStartAgain(t)
    \/ \E i \in DOMAIN ticks :
           \E env \in TickEnvs(ticks[i].wait.task, ticks[i].wait.params) :
               TickSettle(i, env)

RepeatSpec == Init /\ [][NextRepeat]_vars

-----------------------------------------------------------------------------
(* The command routers: ChatAgent and CryptoMessageHandler.  A pattern is   *)
(* the sequence of the elements of its regular expression: lit (a literal), *)
(* opt (an optional literal, `(?:x)?` or `x?`), ws (`\s+`) and cap (a       *)
(* capturing group `([class]+)`).  Every pattern carries the flag i.        *)

LowerCase == "abcdefghijklmnopqrstuvwxyz"
UpperCase == "ABCDEFGHIJKLMNOPQRSTUVWXYZ"

\* the position of character c in the string letters, or 0
LetterIndex(c, letters) ==
    IF \E i \in 1..Len(letters) : SubSeq(letters, i, i) = c
    THEN CHOOSE i \in 1..Len(letters) : SubSeq(letters, i, i) = c
    ELSE 0

LowerChar(c) ==
    IF LetterIndex(c, UpperCase) = 0 THEN c
    ELSE SubSeq(LowerCase, LetterIndex(c, UpperCase), LetterIndex(c, UpperCase))

UpperChar(c) ==
    IF LetterIndex(c, LowerCase) = 0 THEN c
    ELSE SubSeq(UpperCase, LetterIndex(c, LowerCase), LetterIndex(c, LowerCase))

\* s.toUpperCase()
RECURSIVE toUpperCase(_)
toUpperCase(s) ==
    IF Len(s) = 0 THEN "" ELSE UpperChar(SubSeq(s, 1, 1)) \o toUpperCase(Tail(s))

\* whether s starts with the literal lit, letters compared without case
RECURSIVE StartsWith(_, _)
StartsWith(s, lit) ==
    \/ Len(lit) = 0
    \/ /\ Len(s) > 0
       /\ LowerChar(SubSeq(s, 1, 1)) = LowerChar(SubSeq(lit, 1, 1))
       /\ StartsWith(Tail(s), Tail(lit))

\* whether character c is in a character class
InClass(c, class) ==
    CASE class = "alnum" ->     \* [a-zA-Z0-9]
             LetterIndex(c, LowerCase) # 0 \/ LetterIndex(c, UpperCase) # 0 \/ IsDigit(c)
      [] class = "hex" ->       \* [0-9a-fA-Fx]
             IsDigit(c) \/ LetterIndex(c, "abcdefABCDEFxX") # 0
      [] class = "num" ->       \* [\d.]
             IsDigit(c) \/ c = "."
      [] class = "space" ->     \* \s
             c = " "

\* the length of the longest prefix of s made of characters of the class
RECURSIVE ClassRun(_, _)
ClassRun(s, class) ==
    IF Len(s) = 0 \/ ~InClass(SubSeq(s, 1, 1), class) THEN 0
    ELSE 1 + ClassRun(Tail(s), class)

Drop(s, n) == SubSeq(s, n + 1, Len(s))

NoMatch == [ok |-> FALSE]

\* the regular expression from element k on matched at the start of s:
\* the groups it captured, the greedy choice tried first
RECURSIVE MatchHere(_, _, _)
RECURSIVE MatchRun(_, _, _, _)
MatchHere(re, k, s) ==
    IF k > Len(re) THEN [ok |-> TRUE, groups |-> <<>>]
    ELSE CASE re[k].k = "lit" ->
                  IF StartsWith(s, re[k].s)
                  THEN MatchHere(re, k + 1, Drop(s, Len(re[k].s)))
                  ELSE NoMatch
           [] re[k].k = "opt" ->
                  LET taken == MatchHere(re, k + 1, Drop(s, Len(re[k].s)))
                  IN  IF StartsWith(s, re[k].s) /\ taken.ok THEN taken
                      ELSE MatchHere(re, k + 1, s)
           [] re[k].k = "ws" -> MatchRun(re, k, s, ClassRun(s, "space"))
           [] re[k].k = "cap" -> MatchRun(re, k, s, ClassRun(s, re[k].class))

\* element k, a run of one or more characters, taking n characters or fewer
MatchRun(re, k, s, n) ==
    IF n = 0 THEN NoMatch
    ELSE LET rest == MatchHere(re, k + 1, Drop(s, n))
         IN  IF rest.ok
             THEN [ok |-> TRUE,
                   groups |-> (IF re[k].k = "cap" THEN <<SubSeq(s, 1, n)>> ELSE <<>>)
                              \o rest.groups]
             ELSE MatchRun(re, k, s, n - 1)

\* message.match(pattern): the groups of the leftmost match (match[1],
\* match[2], ...), or null
RECURSIVE MatchFrom(_, _, _)
MatchFrom(re, s, start) ==
    IF start > Len(s) + 1 THEN NULL
    ELSE LET here == MatchHere(re, 1, Drop(s, start - 1))
         IN  IF here.ok THEN [groups |-> here.groups]
             ELSE MatchFrom(re, s, start + 1)

match(s, re) == MatchFrom(re, s, 1)

Lit(s) == [k |-> "lit", s |-> s]
Opt(s) == [k |-> "opt", s |-> s]
Cap(class) == [k |-> "cap", class |-> class]
Ws == [k |-> "ws"]

\* ChatAgent.initializeCommandPatterns, in the order of the Map
ChatPatterns ==
    <<[re |-> <<Lit("check "), Opt("the "), Lit("price "), Opt("of "), Cap("alnum")>>,
       handler |-> "handlePriceCheck"],
      [re |-> <<Lit("monitor "), Opt("my "), Lit("wallet "), Cap("hex")>>,
       handler |-> "handleWalletMonitor"],
      [re |-> <<Lit("set "), Opt("a "), Lit("price alert for "), Cap("alnum"),
                Lit(" at "), Opt("$"), Cap("num")>>,
       handler |-> "handlePriceAlert"],
      [re |-> <<Lit("analyze "), Opt("the "), Lit("market")>>,
       handler |-> "handleMarketAnalysis"],
      [re |-> <<Lit("track transaction "), Cap("hex")>>,
       handler |-> "handleTransactionTracking"],
      [re |-> <<Lit("buy "), Cap("alnum"), Opt(" for "), Opt("$"), Cap("num")>>,
       handler |-> "handleBuyOrder"],
      [re |-> <<Lit("sell "), Cap("alnum"), Opt(" for "), Opt("$"), Cap("num")>>,
       handler |-> "handleSellOrder"],
      [re |-> <<Lit("show "), Opt("my "), Lit("active rules")>>,
       handler |-> "handleShowRules"],
      [re |-> <<Lit("help")>>, handler |-> "handleHelp"]>>

\* CryptoMessageHandler.initializeCommandPatterns, in the order of the Map
CryptoPatterns ==
    <<[re |-> <<Lit("crypto"), Ws, Lit("price"), Ws, Opt("of "), Cap("alnum")>>,
       handler |-> "handlePriceCheck"],
      [re |-> <<Lit("crypto"), Ws, Lit("wallet"), Ws, Cap("hex")>>,
       handler |-> "handleWalletMonitor"],
      [re |-> <<Lit("crypto"), Ws, Lit("alert"), Ws, Cap("alnum"), Ws, Lit("at"), Ws,
                Opt("$"), Cap("num")>>,
       handler |-> "handlePriceAlert"],
      [re |-> <<Lit("crypto"), Ws, Lit("market")>>, handler |-> "handleMarketAnalysis"],
      [re |-> <<Lit("crypto"), Ws, Lit("tx"), Ws, Cap("hex")>>,
       handler |-> "handleTransactionTracking"],
      [re |-> <<Lit("crypto"), Ws, Lit("buy"), Ws, Cap("alnum"), Ws, Opt("$"),
                Cap("num")>>,
       handler |-> "handleBuyOrder"],
      [re |-> <<Lit("crypto"), Ws, Lit("sell"), Ws, Cap("alnum"), Ws, Opt("$"),
                Cap("num")>>,
       handler |-> "handleSellOrder"],
      [re |-> <<Lit("crypto"), Ws, Lit("rules")>>, handler |-> "handleShowRules"],
      [re |-> <<Lit("crypto"), Ws, Lit("help")>>, handler |-> "handleHelp"]>>

\* the command routers a process can construct
Routers == {"ChatAgent", "CryptoMessageHandler"}

\* the wording of class r, where the two classes differ in wording only
Pick(r, chatAgent, cryptoMessageHandler) ==
    IF r = "ChatAgent" THEN chatAgent ELSE cryptoMessageHandler

\* the bullet U+2022 and the arrow U+2192 of the templates, written in ASCII
Bullet == "* "
Arrow == " -> "

\* array.join(sep)
RECURSIVE Join(_, _)
Join(arr, sep) ==
    IF arr = <<>> THEN ""
    ELSE IF Len(arr) = 1 THEN arr[1]
    ELSE arr[1] \o sep \o Join(Tail(arr), sep)

\* a ChatResponse {message, data?, suggestions} or a CryptoResponse
\* {content, data?, suggestions}; data is <<>> when the handler sets none
Response(r, text, data, suggestions) ==
    (Pick(r, "message", "content") :> text)
    @@ (IF data = <<>> THEN [suggestions |-> suggestions]
        ELSE [data |-> data[1], suggestions |-> suggestions])

\* the text of a response
TextOf(r, response) == response[Pick(r, "message", "content")]

\* a suggestion that rounds the product up
CeilOf95Percent(price) == (price * 95 + 99) \div 100

\* Math.floor(price * 0.95) for a whole price below 2^31: the double nearest
\* to 0.95 is 0.95 - 4.44e-17, the product is off by less than half the gap
\* between doubles at its size, so it rounds to the whole number 95 * price /
\* 100 when that is whole and keeps its whole part otherwise
FloorOf95Percent(price) == (price * 95) \div 100

\* the executeTask call a handler awaits first, or <<>> for a handler that
\* awaits none (handlePriceAlert, handleShowRules, handleHelp)
HandlerCall(handler, groups) ==
    CASE handler = "handlePriceCheck" ->
             <<[task |-> "check_price", params |-> [symbol |-> groups[1]]]>>
      [] handler = "handleWalletMonitor" ->
             <<[task |-> "monitor_wallet", params |-> [address |-> groups[1]]]>>
      [] handler = "handleMarketAnalysis" ->
             <<[task |-> "analyze_market", params |-> NULL]>>
      [] handler = "handleTransactionTracking" ->
             <<[task |-> "track_transaction", params |-> [txHash |-> groups[1]]]>>
      [] handler = "handleBuyOrder" ->
             <<[task |-> "execute_trade",
                params |-> [type |-> "buy", token |-> groups[1], amount |-> groups[2]]]>>
      [] handler = "handleSellOrder" ->
             <<[task |-> "execute_trade",
                params |-> [type |-> "sell", token |-> groups[1], amount |-> groups[2]]]>>
      [] OTHER -> <<>>

\* handlePriceCheck after its await: result is the TaskResult
handlePriceCheck(r, groups, result) ==
    LET symbol == groups[1]
    IN  IF ~result.success
        THEN Ok(Response(r, "Failed to get price for " \o symbol \o ": " \o result.error,
                         <<>>,
                         Pick(r, <<"Try another cryptocurrency", "Check market analysis">>,
                                 <<"Try 'crypto price bitcoin'", "Try 'crypto market'">>)))
        ELSE Ok(Response(r,
                    toUpperCase(symbol) \o " Price Information:\n"
                    \o Bullet \o "Current Price: $" \o NumToString(result.data.price) \o "\n"
                    \o Bullet \o "24h Change: " \o NumToString(result.data.change24h) \o "%\n"
                    \o Bullet \o "Recommendation: " \o result.data.recommendation,
                    <<result.data>>,
                    <<Pick(r, "set price alert for ", "crypto alert ") \o symbol \o " at "
                          \o NumToString(FloorOf95Percent(result.data.price)),
                      Pick(r, "analyze market", "crypto market"),
                      Pick(r, "buy " \o symbol \o " for 100",
                              "crypto buy " \o symbol \o " 100")>>))

handleWalletMonitor(r, groups, result) ==
    IF ~result.success
    THEN Ok(Response(r, "Failed to monitor wallet: " \o result.error, <<>>,
                     Pick(r, <<"Check another wallet", "analyze market">>,
                             <<"Try another wallet address", "crypto market">>)))
    ELSE Ok(Response(r,
                "Wallet Status:\n"
                \o Bullet \o "Balance: " \o result.data.balance \o " ETH\n"
                \o Bullet \o "Security Status: " \o result.data.securityStatus \o "\n"
                \o Bullet \o "Recent Transactions: "
                \o NumToString(Len(result.data.recentTransactions)),
                <<result.data>>,
                Pick(r, <<"analyze market", "show active rules">>,
                        <<"crypto market", "crypto rules">>)))

\* coin.symbol of a top performer, or topPerformers[0]?.symbol
SymbolOf(coins, i) ==
    IF i \in DOMAIN coins /\ Has(coins[i], "symbol") THEN coins[i].symbol ELSE Undefined

handleMarketAnalysis(r, groups, result) ==
    IF ~result.success
    THEN Ok(Response(r, "Failed to analyze market: " \o result.error, <<>>,
                     Pick(r, <<"Try again later", "check price of bitcoin">>,
                             <<"Try again later", "crypto price bitcoin">>)))
    ELSE IF \E i \in DOMAIN result.data.topPerformers :
                ~Has(result.data.topPerformers[i], "symbol")
    THEN Throw("Cannot read properties of undefined (reading 'toUpperCase')")
    ELSE LET coins == result.data.topPerformers
             topPerformers ==
                 Join([i \in DOMAIN coins |->
                          toUpperCase(coins[i].symbol) \o ": "
                          \o NumToString(coins[i].price_change_percentage_24h) \o "%"],
                      "\n")
         IN  Ok(Response(r,
                    "Market Analysis:\n"
                    \o Bullet \o "Sentiment: " \o result.data.marketSentiment \o "\n"
                    \o Bullet \o "Top Performers:\n"
                    \o topPerformers \o "\n"
                    \o Bullet \o "Recommendations:\n"
                    \o Join(result.data.recommendations, "\n"),
                    <<result.data>>,
                    <<Pick(r, "check price of ", "crypto price ") \o SymbolOf(coins, 1),
                      Pick(r, "set price alert", "crypto alert"),
                      Pick(r, "show active rules", "crypto rules")>>))

handleTransactionTracking(r, groups, result) ==
    IF ~result.success
    THEN Ok(Response(r, "Failed to track transaction: " \o result.error, <<>>,
                     Pick(r, <<"Check another transaction", "monitor wallet">>,
                             <<"Check another transaction", "crypto wallet">>)))
    ELSE Ok(Response(r,
                "Transaction Status:\n"
                \o Bullet \o "Status: " \o result.data.status \o "\n"
                \o Bullet \o "Gas Price: " \o result.data.gasPrice \o " Gwei\n"
                \o Bullet \o result.data.recommendation,
                <<result.data>>,
                Pick(r, <<"analyze market", "show active rules">>,
                        <<"crypto market", "crypto rules">>)))

\* the text both order handlers build from the executed trade
OrderExecuted(side, data) ==
    side \o " Order Executed:\n"
    \o Bullet \o "Token: " \o toUpperCase(data.token) \o "\n"
    \o Bullet \o "Amount: $" \o data.amount \o "\n"
    \o Bullet \o "Price: $" \o NumToString(data.executionPrice) \o "\n"
    \o Bullet \o "Time: " \o data.timestamp

handleBuyOrder(r, groups, result) ==
    IF ~result.success
    THEN Ok(Response(r, "Failed to execute buy order: " \o result.error, <<>>,
                     Pick(r, <<"Try a different amount", "check price first">>,
                             <<"Try a different amount", "crypto price first">>)))
    ELSE Ok(Response(r, OrderExecuted("Buy", result.data), <<result.data>>,
                     Pick(r, <<"set price alert for " \o groups[1], "show active rules",
                               "analyze market">>,
                             <<"crypto alert " \o groups[1], "crypto rules",
                               "crypto market">>)))

handleSellOrder(r, groups, result) ==
    IF ~result.success
    THEN Ok(Response(r, "Failed to execute sell order: " \o result.error, <<>>,
                     Pick(r, <<"Try a different amount", "check price first">>,
                             <<"Try a different amount", "crypto price first">>)))
    ELSE Ok(Response(r, OrderExecuted("Sell", result.data), <<result.data>>,
                     Pick(r, <<"analyze market", "show active rules">>,
                             <<"crypto market", "crypto rules">>)))

\* an awaiting handler from its await on
HandlerResume(r, handler, groups, result) ==
    CASE handler = "handlePriceCheck" -> handlePriceCheck(r, groups, result)
      [] handler = "handleWalletMonitor" -> handleWalletMonitor(r, groups, result)
      [] handler = "handleMarketAnalysis" -> handleMarketAnalysis(r, groups, result)
      [] handler = "handleTransactionTracking" ->
             handleTransactionTracking(r, groups, result)
      [] handler = "handleBuyOrder" -> handleBuyOrder(r, groups, result)
      [] handler = "handleSellOrder" -> handleSellOrder(r, groups, result)

\* the number parseFloat gave, for the whole numbers the engine's model holds
WholeNumber(x) == x.num \div x.den

\* handlePriceAlert: the engine after setupPriceAlert and the response
handlePriceAlert(r, groups, st) ==
    LET symbol == groups[1]
        price == groups[2]
        added == addRule(st, priceAlertRule(symbol, WholeNumber(ParseFloat(price)), <<>>))
    IN  [st |-> added.st,
         outcome |->
             Ok(Response(r,
                    "Price alert set for " \o toUpperCase(symbol) \o " at $" \o price \o "\n"
                    \o Bullet \o "Alert ID: " \o NumToString(added.ret) \o "\n"
                    \o Bullet
                    \o "You will be notified when the price crosses this threshold",
                    <<>>,
                    <<Pick(r, "check price of ", "crypto price ") \o symbol,
                      Pick(r, "show active rules", "crypto rules"),
                      Pick(r, "analyze market", "crypto market")>>))]

handleShowRules(r, groups, st) ==
    LET active == getActiveRules(st.rules)
        rulesList ==
            Join([i \in DOMAIN active |->
                     NumToString(active[i].ruleId) \o ": " \o active[i].rule.condition
                     \o Arrow \o active[i].rule.action],
                 "\n")
    IN  [st |-> st,
         outcome |->
             IF Len(active) = 0
             THEN Ok(Response(r, Pick(r, "No active rules found.",
                                         "No active crypto rules found."),
                              <<>>,
                              Pick(r, <<"set price alert for bitcoin at 45000",
                                        "analyze market">>,
                                      <<"crypto alert bitcoin at 45000",
                                        "crypto market">>)))
             ELSE Ok(Response(r, Pick(r, "Active Rules:\n", "Active Crypto Rules:\n")
                                 \o rulesList,
                              <<active>>,
                              Pick(r, <<"analyze market", "check price of bitcoin">>,
                                      <<"crypto market", "crypto price bitcoin">>)))]

HelpText(r) ==
    Pick(r,
         "Available Commands:\n"
         \o Bullet \o "check price of [crypto] - Get current price and analysis\n"
         \o Bullet \o "monitor wallet [address] - Monitor wallet balance and activity\n"
         \o Bullet \o "set price alert for [crypto] at [price] - Set price alerts\n"
         \o Bullet \o "analyze market - Get market analysis and recommendations\n"
         \o Bullet \o "track transaction [hash] - Track transaction status\n"
         \o Bullet \o "buy [crypto] [amount] - Execute a buy order\n"
         \o Bullet \o "sell [crypto] [amount] - Execute a sell order\n"
         \o Bullet \o "show active rules - View active automation rules\n"
         \o Bullet \o "help - Show this help message",
         "Available Crypto Commands:\n"
         \o Bullet \o "crypto price [symbol] - Get current price and analysis\n"
         \o Bullet \o "crypto wallet [address] - Monitor wallet balance and activity\n"
         \o Bullet \o "crypto alert [symbol] at [price] - Set price alerts\n"
         \o Bullet \o "crypto market - Get market analysis and recommendations\n"
         \o Bullet \o "crypto tx [hash] - Track transaction status\n"
         \o Bullet \o "crypto buy [symbol] [amount] - Execute a buy order\n"
         \o Bullet \o "crypto sell [symbol] [amount] - Execute a sell order\n"
         \o Bullet \o "crypto rules - View active automation rules\n"
         \o Bullet \o "crypto help - Show this help message")

handleHelp(r, groups, st) ==
    [st |-> st,
     outcome |->
         Ok(Response(r, HelpText(r), <<>>,
                     Pick(r, <<"check price of bitcoin", "analyze market",
                               "monitor wallet 0x123...">>,
                             <<"crypto price bitcoin", "crypto market",
                               "crypto wallet 0x123...">>)))]

\* a handler that awaits nothing, run to its end on the engine st
HandlerRun(r, handler, groups, st) ==
    CASE handler = "handlePriceAlert" -> handlePriceAlert(r, groups, st)
      [] handler = "handleShowRules" -> handleShowRules(r, groups, st)
      [] handler = "handleHelp" -> handleHelp(r, groups, st)

\* this.commandPatterns of class r
PatternsOf(r) == Pick(r, ChatPatterns, CryptoPatterns)

\* a loop over the patterns in which the last matching pattern wins
RECURSIVE RouteLast(_, _, _)
RouteLast(patterns, text, k) ==
    IF k > Len(patterns) THEN 0
    ELSE IF RouteLast(patterns, text, k + 1) # 0 THEN RouteLast(patterns, text, k + 1)
    ELSE IF match(text, patterns[k].re) # NULL THEN k
    ELSE 0

\* the loop of processMessage over the Map from entry k on: the index of the
\* entry whose handler it calls, or 0 when it runs off the end
RECURSIVE Route(_, _, _)
Route(patterns, text, k) ==
    IF k > Len(patterns) THEN 0
    ELSE IF match(text, patterns[k].re) # NULL THEN k
    ELSE Route(patterns, text, k + 1)

\* what ChatAgent.processMessage returns when no pattern matches
FallbackResponse ==
    [message |-> "I'm not sure what you want to do. Try 'help' to see available commands.",
     suggestions |-> <<"check price of bitcoin", "analyze market", "help">>]

\* what the catch of ChatAgent.processMessage returns
ErrorResponse(message) ==
    [message |-> "Error: " \o message,
     suggestions |-> <<"Try another command", "Type 'help' for assistance">>]

\* CryptoMessageHandler.formatResponse
formatResponse(response) ==
    IF Has(response, "suggestions") /\ Len(response.suggestions) > 0
    THEN response.content \o "\n\nSuggested commands:\n"
         \o Join([i \in DOMAIN response.suggestions |-> Bullet \o response.suggestions[i]],
                 "\n")
    ELSE response.content

\* Date.now().toString() at the instant Now
NowMillis == "1704067200000"

\* what processMessage settles to when no pattern matched
Unmatched(r) == Pick(r, Ok(FallbackResponse), Ok(NULL))

\* what processMessage settles to once the handler it called has settled
Handled(r, outcome) ==
    IF r = "ChatAgent"
    THEN IF outcome.ok THEN Ok(outcome.value) ELSE Ok(ErrorResponse(outcome.message))
    ELSE IF outcome.ok
         THEN Ok([id |-> NowMillis, role |-> "assistant",
                  content |-> formatResponse(outcome.value)])
         ELSE Throw(outcome.message)

\* the messages users type
Texts ==
    {"check the price of eth", "monitor my wallet 0xabc",
     "set a price alert for eth at $3000", "Analyze the Market",
     "track transaction 0x1", "buy eth for $100", "sell eth 100",
     "show my active rules", "help", "help me show active rules",
     "buy eth 100 then check price of eth",
     "crypto price of eth", "crypto wallet 0xabc", "crypto alert eth at $3000",
     "CRYPTO  market", "crypto tx 0x1", "crypto buy eth $100", "crypto sell eth 100",
     "crypto rules", "crypto help", "crypto help crypto rules",
     "crypto market crypto price eth",
     "check price of bitcoin", "hello", "what is the price of eth"}

\* the prices the price client reports to a price check typed as a command
ChatPrices == {100, 2510, 50000}

\* what the network calls of a command's task can settle to
ChatEnvs(taskName, params) ==
    IF taskName = "check_price"
    THEN {[price |-> h] : h \in PriceHttpOf(params.symbol, ChatPrices, Changes)}
    ELSE Envs(taskName, params)

\* message.match(pattern) for each text and each pattern of class r
Matched ==
    [r \in Routers |->
        [text \in Texts |->
            [k \in DOMAIN PatternsOf(r) |-> match(text, PatternsOf(r)[k].re)]]]

\* the entry the loop of processMessage stops at, for each class and text
Routed == [r \in Routers |-> [text \in Texts |-> Route(PatternsOf(r), text, 1)]]

-----------------------------------------------------------------------------
(* A command router at work: new ChatAgent(...) or new                      *)
(* CryptoMessageHandler(...), then processMessage(text) for the texts its   *)
(* users type.  The router keeps its own CryptoAgent and AutomationAgent;   *)
(* the engine variables are that AutomationAgent.                           *)

Construct(r) ==
    /\ chat.router = "none"
    /\ chat' = [router |-> r, pending |-> NULL]
    /\ lastOp' = [op |-> "construct", router |-> r]
    /\ UNCHANGED <<engineVars, call, lastResult>>

\* processMessage found no pattern, or none but patterns it skips
ProcessUnmatched(r, text) ==
    /\ lastOp' = [op |-> "processMessage", router |-> r, text |-> text,
                  handlers |-> <<>>, tasks |-> <<>>, settled |-> Unmatched(r)]
    /\ UNCHANGED <<engineVars, taskVars>>

\* processMessage called a handler that awaits nothing
ProcessAtOnce(r, text, handler, groups) ==
    /\ handler = "handlePriceAlert" => Len(rules) < MaxRules
    /\ Becomes(HandlerRun(r, handler, groups, Engine).st)
    /\ issued' = IF handler = "handlePriceAlert" THEN Append(issued, Len(rules))
                 ELSE issued
    /\ lastOp' = [op |-> "processMessage", router |-> r, text |-> text,
                  handlers |-> <<handler>>, tasks |-> <<>>,
                  outcome |-> HandlerRun(r, handler, groups, Engine).outcome,
                  settled |-> Handled(r, HandlerRun(r, handler, groups, Engine).outcome)]
    /\ UNCHANGED <<ticks, taskVars>>

\* processMessage called a handler that awaits executeTask
ProcessAwaits(r, text, handler, groups) ==
    /\ chat' = [chat EXCEPT !.pending =
                    [text |-> text, handler |-> handler, groups |-> groups,
                     wait |-> HandlerCall(handler, groups)[1]]]
    /\ lastOp' = [op |-> "processMessageCall", router |-> r, text |-> text,
                  handler |-> handler]
    /\ UNCHANGED <<engineVars, call, lastResult>>

\* processMessage(text) up to its first await
ProcessMessage(text) ==
    /\ chat.router # "none"
    /\ chat.pending = NULL
    /\ LET r == chat.router
           k == Routed[r][text]
       IN  IF k = 0 THEN ProcessUnmatched(r, text)
           ELSE LET handler == PatternsOf(r)[k].handler
                    groups == Matched[r][text][k].groups
                IN  IF HandlerCall(handler, groups) = <<>>
                    THEN ProcessAtOnce(r, text, handler, groups)
                    ELSE ProcessAwaits(r, text, handler, groups)

\* the executeTask call of the handler settles; the handler builds its
\* response and processMessage returns it
ProcessMessageSettle(env) ==
    /\ chat.pending # NULL
    /\ LET r == chat.router
           p == chat.pending
           result == executeTask(p.wait.task, p.wait.params, env).value
       IN  lastOp' = [op |-> "processMessage", router |-> r, text |-> p.text,
                      handlers |-> <<p.handler>>, tasks |-> <<p.wait>>,
                      outcome |-> HandlerResume(r, p.handler, p.groups, result),
                      settled |-> Handled(r, HandlerResume(r, p.handler, p.groups, result))]
    /\ chat' = [chat EXCEPT !.pending = NULL]
    /\ UNCHANGED <<engineVars, call, lastResult>>

NextChat ==
    \/ \E r \in Routers : Construct(r)
    \/ \E text \in Texts : ProcessMessage(text)
    \/ \E env \in (IF chat.pending = NULL THEN {}
                   ELSE ChatEnvs(chat.pending.wait.task, chat.pending.wait.params)) :
           ProcessMessageSettle(env)
    \/ \E t \in timers : TickStart(t)
    \/ \E i \in DOMAIN ticks :
           \E env \in TickEnvs(ticks[i].wait.task, ticks[i].wait.params) :
               TickSettle(i, env)

ChatSpec == Init /\ [][NextChat]_vars

-----------------------------------------------------------------------------
(* Properties of the task registry, checked under TaskSpec. *)

\* C1: whenever a registered task's handler fails, by an error it throws or by
\* a capability client's rejected call, executeTask's promise is fulfilled (never
\* rejected) with {success: false, error: <the failure's message>}.
C1_HandlerFailureIsReturned ==
    (lastOp.op = "executeTask" /\ lastOp.invoked /\ ~lastOp.outcome.ok)
        => /\ lastOp.task \in RegisteredTasks
           /\ lastOp.settled = Ok([success |-> FALSE, error |-> lastOp.outcome.message])
           /\ lastResult = lastOp.settled

\* a handler threw on its own (the trade's threshold check) and the caller got a result
C1_Witness ==
    /\ lastOp.op = "executeTask"
    /\ lastOp.invoked
    /\ ~lastOp.outcome.ok
    /\ lastOp.outcome.message = "Price above threshold"
    /\ lastOp.settled.ok

\* C2: executeTask with a name that is not registered is fulfilled at once with
\* {success: false, error: "Task '<name>' not found"}; no handler is invoked, so
\* no capability client is called, and the promise is not rejected.
C2_UnknownTaskNotFound ==
    (lastOp.op = "executeTask" /\ lastOp.task \notin RegisteredTasks)
        => /\ ~lastOp.invoked
           /\ call = NULL
           /\ lastOp.settled =
                  Ok([success |-> FALSE,
                      error |-> "Task '" \o lastOp.task \o "' not found"])
           /\ lastResult = lastOp.settled

C2_Witness ==
    /\ lastOp.op = "executeTask"
    /\ lastOp.task = "unknown_task"
    /\ lastOp.settled.value.error = "Task 'unknown_task' not found"

\* C3: every TaskResult executeTask returns has exactly one of data and error:
\* success = true comes with data, the handler's returned value, and no error;
\* success = false comes with error and no data.
C3_ExactlyOneOfDataAndError ==
    lastOp.op = "executeTask"
        => /\ lastOp.settled.ok
           /\ LET r == lastOp.settled.value
              IN  IF r.success
                  THEN /\ DOMAIN r = {"success", "data"}
                       /\ lastOp.invoked
                       /\ lastOp.outcome.ok
                       /\ r.data = lastOp.outcome.value
                  ELSE /\ DOMAIN r = {"success", "error"}
                       /\ (lastOp.invoked => ~lastOp.outcome.ok)

\* a trade that went through: success with the execution record as data
C3_Witness ==
    /\ lastOp.op = "executeTask"
    /\ lastOp.task = "execute_trade"
    /\ lastOp.settled.value.success
    /\ lastOp.settled.value.data.executionPrice = 2500

\* the price the price client fetched for a trade, as Ok(PriceData) or Throw
Fetched(op) == getPrice(op.params.token, op.env.price)

\* C22: execute_trade with a priceThreshold given fails with "Price above
\* threshold" when type is buy and the fetched price is above the threshold,
\* and with "Price below threshold" when type is sell and the fetched price is
\* below it, for every given threshold value; in all other cases it returns
\* {type, amount, token, executionPrice, timestamp} with the fetched price.
C22_TradeHonoursEveryThreshold ==
    (lastOp.op = "executeTask" /\ lastOp.task = "execute_trade" /\ lastOp.invoked
     /\ Fetched(lastOp).ok)
        => LET params == lastOp.params
               price == Fetched(lastOp).value.price
           IN  IF Has(params, "priceThreshold") /\ params.type = "buy"
                  /\ price > params.priceThreshold
               THEN lastOp.outcome = Throw("Price above threshold")
               ELSE IF Has(params, "priceThreshold") /\ params.type = "sell"
                       /\ price < params.priceThreshold
               THEN lastOp.outcome = Throw("Price below threshold")
               ELSE lastOp.outcome =
                        Ok([type |-> params.type, amount |-> params.amount,
                            token |-> params.token, executionPrice |-> price,
                            timestamp |-> lastOp.env.now])

\* C23: smart_contract_interaction with method "approve" and the spender (the
\* first argument of approve) equal to the all-f address fails with the
\* infinite-approval error whenever it gets as far as the check, and never
\* returns a success result carrying the gas estimate.
C23_InfiniteApprovalIsRefused ==
    (lastOp.op = "executeTask" /\ lastOp.task = "smart_contract_interaction"
     /\ lastOp.params.method = "approve"
     /\ Len(lastOp.params.params) > 0
     /\ lastOp.params.params[1] = InfiniteApproval)
        => /\ ~lastOp.settled.value.success
           /\ lastOp.env.estimate.ok
                  => lastOp.settled.value.error =
                         "Infinite approval detected - consider limiting approval amount"

\* C24: check_price derives its recommendation by strict thresholds on
\* change24h: above 5 "Consider Taking Profits", below -5 "Potential Buying
\* Opportunity", anything else, 5 and -5 included, "Market Stable".
C24_RecommendationThresholdsAreStrict ==
    (lastOp.op = "executeTask" /\ lastOp.task = "check_price" /\ lastOp.invoked
     /\ lastOp.outcome.ok)
        => LET change == lastOp.env.price.body[lastOp.params.symbol].usd_24h_change
           IN  /\ lastOp.outcome.value.change24h = change
               /\ lastOp.outcome.value.recommendation =
                      (IF change > 5 THEN "Consider Taking Profits"
                       ELSE IF change < -5 THEN "Potential Buying Opportunity"
                       ELSE "Market Stable")

\* the 24h change was exactly 5 and exactly -5, and the market was called stable
C24_Witness ==
    /\ lastOp.op = "executeTask"
    /\ lastOp.task = "check_price"
    /\ lastOp.settled.value.success
    /\ lastOp.settled.value.data.change24h = 5
    /\ lastOp.settled.value.data.recommendation = "Market Stable"
    /\ lastResult = lastOp.settled

\* C25: analyze_market returns, for each of the sentiments Bullish, Bearish
\* and Neutral, a recommendations list holding exactly one fixed suggestion
\* line determined by the sentiment.
C25_OneRecommendationPerSentiment ==
    (lastOp.op = "executeTask" /\ lastOp.task = "analyze_market" /\ lastOp.invoked
     /\ lastOp.outcome.ok)
        => LET data == lastOp.outcome.value
           IN  /\ data.marketSentiment \in {"Bullish", "Bearish", "Neutral"}
               /\ Len(data.recommendations) = 1
               \* a fixed line: the sentiment alone decides it
               /\ \A env \in Envs("analyze_market", NULL) :
                      (analyzeMarket(NULL, env).ok
                       /\ analyzeMarket(NULL, env).value.marketSentiment
                              = data.marketSentiment)
                          => analyzeMarket(NULL, env).value.recommendations
                                 = data.recommendations

-----------------------------------------------------------------------------
(* Properties of the rule engine, checked under Spec. *)

ActiveIds(rs) == {getActiveRules(rs)[k].ruleId : k \in DOMAIN getActiveRules(rs)}

\* C4: addRule returns the number of slots there were before the call, and
\* getActiveRules() right after it is getActiveRules() from before it with the
\* one entry {ruleId: that id, rule} appended.
C4_AddRuleAppendsOneEntry ==
    [][lastOp'.op = "addRule"
           => /\ lastOp'.ret = Len(rules)
              /\ getActiveRules(rules')
                     = Append(getActiveRules(rules),
                              [ruleId |-> lastOp'.ret, rule |-> lastOp'.rule])]_vars

\* a rule added after the first one was removed: its id is 1, the slot count
C4_Witness ==
    /\ lastOp.op = "addRule"
    /\ lastOp.ret = 1
    /\ RuleAt(rules, 0) = NULL
    /\ Len(getActiveRules(rules)) = 1

\* C5: rule ids are never reused: every id addRule returns is greater than all
\* the ids it returned before, whatever was removed or stopped in between, and
\* no step makes the number of slots smaller.
C5_IdsNeverReused ==
    [][/\ Len(rules') >= Len(rules)
       /\ lastOp'.op = "addRule"
              => \A k \in DOMAIN issued : issued[k] < lastOp'.ret]_vars

\* an id issued after a removal and a stopAllMonitoring
C5_Witness ==
    /\ lastOp.op = "addRule"
    /\ issued = <<0, 1>>
    /\ RuleAt(rules, 0) = NULL
    /\ stopped # {}

\* C6 (as claimed): removeRule on a valid id leaves that id out of
\* getActiveRules(), and removeRule on an id whose slot was already removed
\* returns false.
C6_SecondRemoveReturnsFalse ==
    [][lastOp'.op = "removeRule"
           => /\ lastOp'.ret => lastOp'.ruleId \notin ActiveIds(rules')
              /\ (/\ lastOp'.ruleId >= 0
                  /\ lastOp'.ruleId < Len(rules)
                  /\ RuleAt(rules, lastOp'.ruleId) = NULL) => ~lastOp'.ret]_vars

\* C7: removeRule with an id below 0 or not below the slot count returns false
\* and changes neither the rules nor the monitors nor the timers.
C7_OutOfRangeRemoveIsNoOp ==
    [][(/\ lastOp'.op = "removeRule"
        /\ (lastOp'.ruleId < 0 \/ lastOp'.ruleId >= Len(rules)))
           => /\ ~lastOp'.ret
              /\ rules' = rules
              /\ activeMonitors' = activeMonitors
              /\ timers' = timers]_vars

\* removeRule(count) refused while a rule is stored and its timer is live
C7_Witness ==
    /\ lastOp.op = "removeRule"
    /\ lastOp.ruleId = Len(rules)
    /\ ~lastOp.ret
    /\ timers # {}

TimersOf(ruleId) == {t \in timers : t.ruleId = ruleId}

\* the monitor map and the runtime's timers agree, one timer per rule id at most
OneTimerPerRule ==
    /\ \A t \in timers : /\ t.ruleId \in DOMAIN activeMonitors
                         /\ activeMonitors[t.ruleId] = t.handle
    /\ \A ruleId \in DOMAIN activeMonitors : Cardinality(TimersOf(ruleId)) = 1
    /\ \A ruleId \in 0..(Len(rules) - 1) : Cardinality(TimersOf(ruleId)) <= 1

C9_FailedTickKeepsTimer ==
    /\ [][(lastOp'.op = "tickDone" /\ TickFailed(lastOp'))
              => /\ rules' = rules
                 /\ activeMonitors' = activeMonitors
                 /\ timers' = timers
                 /\ (lastOp'.checked = <<>> \/ ~lastOp'.checked[1].success)
                        => /\ ~lastOp'.met
                           /\ lastOp'.result = <<>>
                           /\ Len(lastOp'.invoked) = 1]_vars
    /\ [](lastOp.op = "tickDone" /\ TickFailed(lastOp)
              => \A t \in timers : t.handle = lastOp.timer => ENABLED TickStart(t))

\* the timer fires again right after a tick of its own that failed
C9_Witness ==
    /\ lastOp.op = "tickStart"
    /\ lastOp.afterFailure

\* C10 (as claimed): for a rule made by setupPriceAlert(symbol, threshold), a
\* tick in which the price client reports prices below the threshold invokes
\* execute_trade exactly once, as a buy; a tick in which it reports prices above
\* the threshold does not invoke execute_trade.
TradesInvoked(done) ==
    SelectSeq(done.invoked, LAMBDA c : c.task = "execute_trade")

C10_PriceAlertTriggersTrade ==
    \A symbol \in Symbols, threshold \in AlertThresholds, interval \in Intervals :
        (/\ lastOp.op = "tickDone"
         /\ lastOp.rule = priceAlertRule(symbol, threshold, interval)
         /\ lastOp.reported # <<>>)
            => /\ (\A k \in DOMAIN lastOp.reported : lastOp.reported[k] < threshold)
                      => /\ Len(TradesInvoked(lastOp)) = 1
                         /\ TradesInvoked(lastOp)[1].params.type = "buy"
               /\ (\A k \in DOMAIN lastOp.reported : lastOp.reported[k] > threshold)
                      => TradesInvoked(lastOp) = <<>>

-----------------------------------------------------------------------------
(* Properties of condition evaluation, checked under ConditionSpec (C11, C13) *)
(* and under Spec (C12).                                                     *)

\* the type of a rule's condition: the text before its first colon
ConditionType(rule) == Part(Split(rule.condition), 0)

KnownConditionTypes == {"price_below_threshold", "wallet_balance_above"}

\* C11: a rule whose condition type is neither price_below_threshold nor
\* wallet_balance_above is false on every tick: no tick of it ever awaits a
\* task, and each of its ticks ends with the condition not met, no task
\* invoked (neither a check nor the action), no price fetched and nothing
\* raised.
C11_UnknownConditionNeverActs ==
    /\ \A i \in DOMAIN ticks : ConditionType(ticks[i].rule) \in KnownConditionTypes
    /\ (lastOp.op = "tickDone" /\ ConditionType(lastOp.rule) \notin KnownConditionTypes)
           => /\ ~lastOp.met
              /\ ~lastOp.caught
              /\ lastOp.invoked = <<>>
              /\ lastOp.reported = <<>>
              /\ lastOp.checked = <<>>
              /\ lastOp.result = <<>>

\* a tick of the bogus_condition rule has ended, its timer still live
C11_Witness ==
    /\ lastOp.op = "tickDone"
    /\ lastOp.rule.condition = "bogus_condition:x:y"
    /\ \E t \in timers : t.handle = lastOp.timer

\* the number a condition's third field denotes (NaN when it denotes none)
LimitOf(rule) == ParseFloat(Part(Split(rule.condition), 2))

\* C12: a tick of a rule whose condition is price_below_threshold:symbol:threshold
\* (symbol and threshold being the condition's second and third fields) invokes
\* check_price for symbol, and the condition is met if and only if that task
\* succeeded and the price it returned is strictly less than the threshold; a
\* failed check, an equal price or a threshold that is no number gives false.
C12_PriceBelowThresholdIsStrict ==
    (lastOp.op = "tickDone" /\ ConditionType(lastOp.rule) = "price_below_threshold")
        => /\ lastOp.invoked[1]
                  = [task |-> "check_price",
                     params |-> [symbol |-> Part(Split(lastOp.rule.condition), 1)]]
           /\ Len(lastOp.checked) = 1
           /\ lastOp.checked[1].success <=> lastOp.reported # <<>>
           /\ lastOp.checked[1].success
                  => lastOp.checked[1].data.price = lastOp.reported[1]
           /\ lastOp.met <=> /\ lastOp.checked[1].success
                             /\ ~LimitOf(lastOp.rule).nan
                             /\ lastOp.reported[1] * LimitOf(lastOp.rule).den
                                    < LimitOf(lastOp.rule).num

\* the price check of an eth alert succeeded with a price equal to the
\* threshold, and the condition was not met
C12_Witness ==
    /\ lastOp.op = "tickDone"
    /\ lastOp.rule.condition = "price_below_threshold:eth:3000"
    /\ lastOp.reported = <<3000>>
    /\ ~lastOp.met

\* the balance the wallet check of a finished tick returned, as a number
BalanceOf(done) == ParseFloat(done.checked[1].data.balance)

\* C13: a tick of a rule whose condition is wallet_balance_above:address:minBalance
\* invokes monitor_wallet for address, and the condition is met if and only if
\* that task succeeded and the balance it returned is strictly greater than
\* minBalance; a failed check or an equal balance gives false.
C13_WalletBalanceAboveIsStrict ==
    (lastOp.op = "tickDone" /\ ConditionType(lastOp.rule) = "wallet_balance_above")
        => /\ lastOp.invoked[1]
                  = [task |-> "monitor_wallet",
                     params |-> [address |-> Part(Split(lastOp.rule.condition), 1)]]
           /\ Len(lastOp.checked) = 1
           /\ lastOp.met <=> /\ lastOp.checked[1].success
                             /\ ~BalanceOf(lastOp).nan
                             /\ ~LimitOf(lastOp.rule).nan
                             /\ BalanceOf(lastOp).num * LimitOf(lastOp.rule).den
                                    > LimitOf(lastOp.rule).num * BalanceOf(lastOp).den

\* the wallet check succeeded with a balance equal to minBalance, and the
\* condition was not met
C13_Witness ==
    /\ lastOp.op = "tickDone"
    /\ lastOp.rule = walletMonitorRule("0xabc", "2.0", <<>>)
    /\ lastOp.checked # <<>>
    /\ lastOp.checked[1].success
    /\ lastOp.checked[1].data.balance = "2.0"
    /\ ~lastOp.met

\* the tasks a tick has invoked so far, or invoked in all
InvokedTasks(tick) == {tick.invoked[k].task : k \in DOMAIN tick.invoked}

\* C28: a rule created by setupMarketAnalysis never executes its
\* analyze_market action: its condition 'market_analysis' is not a condition
\* type evaluateCondition knows, so every tick finds it false and invokes no
\* task, however many ticks there are.
C28_MarketAnalysisRuleNeverRuns ==
    /\ [](\A i \in DOMAIN rules :
            (rules[i] # NULL /\ rules[i].action = "analyze_market")
                => /\ rules[i].condition = "market_analysis"
                   /\ ConditionType(rules[i]) \notin KnownConditionTypes)
    /\ [](\A i \in DOMAIN ticks :
            /\ ticks[i].rule.action # "analyze_market"
            /\ "analyze_market" \notin InvokedTasks(ticks[i]))
    /\ [](lastOp.op = "tickDone"
            => /\ "analyze_market" \notin InvokedTasks(lastOp)
               /\ lastOp.rule.action = "analyze_market"
                      => /\ ~lastOp.met
                         /\ lastOp.invoked = <<>>
                         /\ lastOp.result = <<>>)
    /\ [][(lastOp'.op = "tickDone" /\ lastOp'.rule.action = "analyze_market")
              => /\ rules' = rules
                 /\ timers' = timers
                 /\ \E t \in timers' : t.handle = lastOp'.timer]_vars

\* a tick of the market analysis rule has ended without a task, its timer
\* still live
C28_Witness ==
    /\ lastOp.op = "tickDone"
    /\ lastOp.rule = marketAnalysisRule(<<>>)
    /\ ~lastOp.met
    /\ \E t \in timers : t.handle = lastOp.timer /\ t.rule.action = "analyze_market"

-----------------------------------------------------------------------------
(* Properties of the engine's calls and of ticks in flight, checked under Spec. *)

\* C14: stopAllMonitoring() leaves no live timer and an empty monitor map, and
\* changes no rule data: the slots, and with them what getActiveRules()
\* returns, are the same before and after the call.
C14_StopAllCancelsTimersOnly ==
    [][lastOp'.op = "stopAllMonitoring"
           => /\ DOMAIN activeMonitors' = {}
              /\ timers' = {}
              /\ lastOp'.live = DOMAIN activeMonitors
              /\ rules' = rules
              /\ getActiveRules(rules') = getActiveRules(rules)]_vars

\* stopAllMonitoring() has just cancelled the timers of two stored rules
C14_Witness ==
    /\ lastOp.op = "stopAllMonitoring"
    /\ lastOp.live = {0, 1}
    /\ RuleAt(rules, 0) # NULL
    /\ RuleAt(rules, 1) # NULL
    /\ timers = {}

\* C15: getActiveRules() returns one {ruleId, rule} pair for each non-null
\* slot and none for a removed slot, in ascending ruleId order, each pair
\* holding the slot's rule; and a slot holds the rule it was added with until
\* removeRule nulls it: no other call or tick changes a slot.
C15_ActiveRulesAreNonNullSlots ==
    /\ [](lastOp.op = "getActiveRules"
              => /\ \A k \in DOMAIN lastOp.ret :
                        /\ lastOp.ret[k].ruleId \in 0..(Len(rules) - 1)
                        /\ lastOp.ret[k].rule # NULL
                        /\ lastOp.ret[k].rule = RuleAt(rules, lastOp.ret[k].ruleId)
                 /\ \A j, k \in DOMAIN lastOp.ret :
                        j < k => lastOp.ret[j].ruleId < lastOp.ret[k].ruleId
                 /\ {lastOp.ret[k].ruleId : k \in DOMAIN lastOp.ret}
                        = {i \in 0..(Len(rules) - 1) : RuleAt(rules, i) # NULL})
    /\ [][/\ lastOp'.op = "addRule" => RuleAt(rules', lastOp'.ret) = lastOp'.rule
          /\ \A i \in 0..(Len(rules) - 1) :
                 \/ RuleAt(rules', i) = RuleAt(rules, i)
                 \/ /\ lastOp'.op = "removeRule"
                    /\ lastOp'.ruleId = i
                    /\ RuleAt(rules', i) = NULL]_vars

\* getActiveRules() called with rule 0 removed and rule 1 stored
C15_Witness ==
    /\ lastOp.op = "getActiveRules"
    /\ Len(rules) = 2
    /\ RuleAt(rules, 0) = NULL
    /\ Len(lastOp.ret) = 1
    /\ lastOp.ret[1].ruleId = 1

\* C16: removeRule leaves the ticks in flight as they are.  A tick carries
\* the rule its timer was created for, read from the slot when the tick
\* started, and keeps it whatever happens to the slot; the call it awaits is
\* the check of that rule's condition or that rule's action; when it ends
\* with the condition met it has invoked the rule's action with the rule's
\* params, once.
C16_RemovedRuleTickCompletes ==
    /\ [][lastOp'.op = "removeRule" => ticks' = ticks]_vars
    /\ [][\A j \in DOMAIN ticks' :
              \/ \E i \in DOMAIN ticks : /\ ticks[i].timer = ticks'[j].timer
                                        /\ ticks[i].rule = ticks'[j].rule
              \/ /\ lastOp'.op = "tickStart"
                 /\ j = Len(ticks')
                 /\ \E t \in timers : /\ t.handle = ticks'[j].timer
                                      /\ RuleAt(rules, t.ruleId) # NULL
                                      /\ ticks'[j].rule = RuleAt(rules, t.ruleId)]_vars
    /\ [][(lastOp'.op = "tickDone" /\ lastOp'.invoked # <<>>)
              => /\ \E i \in DOMAIN ticks : /\ ticks[i].timer = lastOp'.timer
                                           /\ ticks[i].rule = lastOp'.rule
                                           /\ ticks' = Without(ticks, i)
                 /\ lastOp'.met
                        => SubSeq(lastOp'.invoked, 2, Len(lastOp'.invoked))
                              = <<[task |-> lastOp'.rule.action,
                                   params |-> lastOp'.rule.params]>>]_vars
    /\ [](\A i \in DOMAIN ticks :
              /\ ticks[i].rule # NULL
              /\ ticks[i].pc = "condition"
                     => <<ticks[i].wait>> = conditionCall(ticks[i].rule.condition)
              /\ ticks[i].pc = "action"
                     => ticks[i].wait = [task |-> ticks[i].rule.action,
                                         params |-> ticks[i].rule.params])

\* a tick has bought for a price alert whose only rule slot is null: the
\* rule was removed while the tick was in flight
C16_Witness ==
    /\ lastOp.op = "tickDone"
    /\ rules = <<NULL>>
    /\ lastOp.rule = priceAlertRule("eth", 3000, <<>>)
    /\ lastOp.met
    /\ lastOp.result # <<>>
    /\ lastOp.result[1].success
    /\ lastOp.result[1].data.type = "buy"

\* C27: once removeRule(id) has returned true for a rule with a timer, or
\* stopAllMonitoring() has returned, no new tick starts for the rules affected
\* in any later state: their timers are gone for good, nothing restarts them,
\* and only ticks already in flight still complete.
C27_StoppedRuleNeverTicksAgain ==
    /\ [](\A t \in timers : t.ruleId \notin stopped /\ RuleAt(rules, t.ruleId) # NULL)
    /\ []((lastOp.op = "removeRule" /\ lastOp.ret) => TimersOf(lastOp.ruleId) = {})
    /\ [](lastOp.op = "stopAllMonitoring" => timers = {})
    /\ [][stopped \subseteq stopped'
          /\ \A i \in DOMAIN rules : rules[i] = NULL => rules'[i] = NULL]_vars
    /\ [][Len(ticks') > Len(ticks)
              => \E t \in timers :
                     /\ t.handle = ticks'[Len(ticks')].timer
                     /\ t.ruleId \notin stopped
                     /\ RuleAt(rules, t.ruleId) # NULL]_vars

\* a tick that was in flight when its rule was stopped has completed, and
\* no timer is left to start another
C27_Witness ==
    /\ lastOp.op = "tickDone"
    /\ stopped # {}
    /\ \A t \in timers : t.handle # lastOp.timer
    /\ ticks = <<>>
    /\ \E ruleId \in stopped : TimersOf(ruleId) = {} /\ ruleId \notin DOMAIN activeMonitors

\* the ids of the slots other than ruleId, before a step
OtherIds(ruleId) == (0..(Len(rules) - 1)) \ {ruleId}

\* C31: removeRule(id) affects only rule id: for every other id j, slot j, its
\* rule data and whether it has a live timer (and which) are the same before
\* and after the call, the array keeps its length, and the timers of the other
\* rules go on firing: a timer left after the call can start a tick.
C31_RemoveRuleTouchesOnlyItsRule ==
    /\ [][lastOp'.op = "removeRule"
              => /\ Len(rules') = Len(rules)
                 /\ nextTimer' = nextTimer
                 /\ ticks' = ticks
                 /\ \A j \in OtherIds(lastOp'.ruleId) :
                        /\ RuleAt(rules', j) = RuleAt(rules, j)
                        /\ (j \in DOMAIN activeMonitors') = (j \in DOMAIN activeMonitors)
                        /\ j \in DOMAIN activeMonitors
                               => activeMonitors'[j] = activeMonitors[j]
                        /\ {t \in timers' : t.ruleId = j} = TimersOf(j)]_vars
    /\ [](lastOp.op = "removeRule"
              => \A t \in timers :
                     /\ t.ruleId # lastOp.ruleId
                     /\ Len(ticks) < MaxInFlight => ENABLED TickStart(t))

\* removeRule has removed a rule with a timer while another rule's timer was
\* live with a tick of it in flight; the other rule, its timer and the tick
\* are still there
C31_Witness ==
    /\ lastOp.op = "removeRule"
    /\ lastOp.ret
    /\ lastOp.ruleId \in stopped
    /\ RuleAt(rules, lastOp.ruleId) = NULL
    /\ \E t \in timers :
           /\ t.ruleId # lastOp.ruleId
           /\ RuleAt(rules, t.ruleId) = t.rule
           /\ activeMonitors[t.ruleId] = t.handle
           /\ \E i \in DOMAIN ticks : ticks[i].timer = t.handle

\* the timer of a rule other than the removed one fires after the removal
C31_OtherRuleTicksAfterRemoval ==
    /\ lastOp.op = "tickStart"
    /\ stopped # {}
    /\ \E t \in timers :
           /\ t.handle = lastOp.timer
           /\ \E j \in stopped : j # t.ruleId /\ RuleAt(rules, j) = NULL

\* a tick of a rule made by setupPriceAlert with a positive threshold
PriceAlertTick(done) ==
    /\ done.op = "tickDone"
    /\ ConditionType(done.rule) = "price_below_threshold"
    /\ done.rule.action = "execute_trade"
    /\ done.rule.params.priceThreshold > 0

\* C29: within one tick of a setupPriceAlert rule the price is fetched twice,
\* once for the condition and once inside execute_trade, and may change in
\* between; every trade that completes successfully for such a rule with a
\* positive threshold has executionPrice <= threshold, and a tick whose
\* condition held but whose second fetch is above the threshold ends in a
\* failed TaskResult, not in a trade and not in a raised error.
C29_TradeNeverAboveThreshold ==
    PriceAlertTick(lastOp)
        => LET threshold == lastOp.rule.params.priceThreshold
           IN  /\ lastOp.met
                      => /\ Len(lastOp.invoked) = 2
                         /\ lastOp.invoked[1].task = "check_price"
                         /\ lastOp.invoked[2].task = "execute_trade"
                         /\ lastOp.reported # <<>>
                         /\ lastOp.reported[1] < threshold
               /\ (lastOp.result # <<>> /\ lastOp.result[1].success)
                      => /\ Len(lastOp.reported) = 2
                         /\ lastOp.result[1].data.executionPrice = lastOp.reported[2]
                         /\ lastOp.result[1].data.executionPrice <= threshold
               /\ (lastOp.met /\ Len(lastOp.reported) = 2 /\ lastOp.reported[2] > threshold)
                      => /\ ~lastOp.caught
                         /\ lastOp.result =
                                <<[success |-> FALSE, error |-> "Price above threshold"]>>

\* the condition saw 2500, the trade saw 3500 and was refused
C29_Witness ==
    /\ PriceAlertTick(lastOp)
    /\ lastOp.met
    /\ lastOp.reported = <<2500, 3500>>
    /\ ~lastOp.caught
    /\ lastOp.result = <<[success |-> FALSE, error |-> "Price above threshold"]>>

-----------------------------------------------------------------------------
(* Properties of overlapping ticks, checked under OverlapSpec. *)

\* C17: nothing serializes the ticks of one rule.  Once a tick has started
\* awaiting its condition's check or its action, its timer, while live, can
\* fire again at once (only the bound on ticks in flight holds it back), and
\* a tick that starts leaves the ticks already in flight as they are, so two
\* ticks of one rule are in flight at once and each goes on to execute the
\* action.
C17_TicksOfOneRuleOverlap ==
    /\ []((lastOp.op \in {"tickStart", "tickAction"} /\ Len(ticks) < MaxOverlap)
              => \A t \in timers :
                     t.handle = lastOp.timer => ENABLED TickStartOverlap(t))
    /\ [][lastOp'.op = "tickStart"
              => /\ Len(ticks') = Len(ticks) + 1
                 /\ SubSeq(ticks', 1, Len(ticks)) = ticks
                 /\ ticks'[Len(ticks')].timer = lastOp'.timer]_vars

\* a tick has bought while another tick of the same timer, started while the
\* first was in flight or before it, has invoked the action too and awaits it
C17_Witness ==
    /\ lastOp.op = "tickDone"
    /\ lastOp.result # <<>>
    /\ lastOp.result[1].success
    /\ \E i \in DOMAIN ticks : /\ ticks[i].timer = lastOp.timer
                                /\ ticks[i].pc = "action"
                                /\ Len(ticks[i].invoked) = 2

\* C18: a call that never completes stalls the tick that awaits it and
\* nothing else.  The stalled tick stays in flight as it is; while it does,
\* getActiveRules, removeRule of any stored id and setupPriceAlert can be
\* called; right after the call stalled every live timer can fire (the
\* stalled tick's own too); and the ticks that end are ticks that are not
\* stalled.
C18_HungCallStallsOnlyItsTick ==
    /\ []((\E i \in DOMAIN ticks : ticks[i].hangs)
              => /\ ENABLED GetActiveRules
                 /\ \A ruleId \in 0..(Len(rules) - 1) : ENABLED RemoveRule(ruleId)
                 /\ Len(rules) < MaxRules
                        => \A threshold \in AlertThresholds :
                               ENABLED SetupPriceAlert("eth", threshold, <<>>)
                 /\ (lastOp.op = "tickHang" /\ Len(ticks) < MaxOverlap)
                        => \A t \in timers : ENABLED TickStartOverlap(t))
    /\ [][\A i \in DOMAIN ticks :
              ticks[i].hangs => /\ i \in DOMAIN ticks'
                                /\ ticks'[i] = ticks[i]]_vars
    /\ [][(lastOp'.op = "tickDone" /\ lastOp'.invoked # <<>>)
              => \E i \in DOMAIN ticks : /\ ~ticks[i].hangs
                                        /\ ticks[i].timer = lastOp'.timer
                                        /\ ticks' = Without(ticks, i)]_vars

\* with the oldest tick stalled, a later tick of the same rule has run to its
\* end and bought, and a second rule has been added
C18_Witness ==
    /\ ticks # <<>>
    /\ ticks[1].hangs
    /\ lastOp.op = "tickDone"
    /\ lastOp.timer = ticks[1].timer
    /\ lastOp.result # <<>>
    /\ lastOp.result[1].success
    /\ Len(rules) = 2

-----------------------------------------------------------------------------
(* Properties of ticks that follow one another, checked under RepeatSpec. *)

\* C30: a rule is not one-shot: carrying out its action neither removes the
\* rule nor stops its timer, so the timer fires again and on every tick for
\* which the condition holds the action is executed again (a price alert
\* issues a buy on each tick while the price stays below the threshold).
C30_RuleFiresOnEveryTick ==
    /\ [][lastOp'.op \in {"tickAction", "tickDone"}
              => /\ rules' = rules
                 /\ timers' = timers
                 /\ activeMonitors' = activeMonitors]_vars
    /\ [](lastOp.op = "tickDone" /\ lastOp.met
              => /\ Len(lastOp.invoked) = 2
                 /\ lastOp.invoked[2] = [task |-> lastOp.rule.action,
                                         params |-> lastOp.rule.params])
    /\ [](\A i \in DOMAIN ticks :
              ticks[i].pc = "action"
                  => ticks[i].wait = [task |-> ticks[i].rule.action,
                                      params |-> ticks[i].rule.params])
    /\ []((lastOp.op = "tickDone" /\ lastOp.result # <<>> /\ lastOp.result[1].success)
              => \A t \in timers : t.handle = lastOp.timer => ENABLED TickStartAgain(t))

\* the tick after one that bought has bought as well, and rule and timer are
\* still there
C30_Witness ==
    /\ lastOp.op = "tickDone"
    /\ lastOp.again
    /\ lastOp.met
    /\ lastOp.result # <<>>
    /\ lastOp.result[1].success
    /\ lastOp.result[1].data.type = "buy"
    /\ \E t \in timers : /\ t.handle = lastOp.timer
                          /\ RuleAt(rules, t.ruleId) = lastOp.rule

-----------------------------------------------------------------------------
(* Properties of the command routers, checked under ChatSpec. *)

\* the patterns of class r that match the text
Hits(r, text) == {k \in DOMAIN PatternsOf(r) : Matched[r][text][k] # NULL}

\* the handler bound to the first pattern of class r that matches the text
FirstHandler(r, text) ==
    PatternsOf(r)[CHOOSE k \in Hits(r, text) : \A other \in Hits(r, text) : k <= other]
        .handler

\* C19: processMessage(text) invokes exactly one handler, the one bound to the
\* first pattern in list order that matches text, and no handler of a later
\* pattern even when that one matches too; a text that matches 'show active
\* rules' and 'help' and no earlier pattern goes to the rules handler.
C19_FirstMatchingPatternHandles ==
    /\ (lastOp.op = "processMessage" /\ Hits(lastOp.router, lastOp.text) # {})
           => lastOp.handlers = <<FirstHandler(lastOp.router, lastOp.text)>>
    /\ (lastOp.op = "processMessageCall")
           => /\ chat.pending # NULL
              /\ lastOp.handler = FirstHandler(lastOp.router, lastOp.text)
    /\ chat.pending # NULL
           => chat.pending.handler = FirstHandler(chat.router, chat.pending.text)
    /\ (lastOp.op = "processMessage" /\ lastOp.router = "ChatAgent"
        /\ Hits(lastOp.router, lastOp.text) \cap 1..8 = {8})
           => lastOp.handlers = <<"handleShowRules">>

\* a text that matches the rules pattern and the help pattern went to the
\* rules handler alone
C19_Witness ==
    /\ lastOp.op = "processMessage"
    /\ lastOp.router = "ChatAgent"
    /\ Hits(lastOp.router, lastOp.text) = {8, 9}
    /\ lastOp.handlers = <<"handleShowRules">>
    /\ TextOf("ChatAgent", lastOp.settled.value) = "No active rules found."

\* C20: if no pattern matches the text, processMessage returns the same fixed
\* fallback response with generic suggestions, invokes no handler, executes no
\* task and leaves the rule engine unchanged.
C20_NoMatchGivesFallback ==
    /\ [](\A r \in Routers, text \in Texts :
            (lastOp.op = "processMessage" /\ lastOp.router = r /\ lastOp.text = text
             /\ Hits(r, text) = {})
                => /\ lastOp.settled.ok
                   /\ lastOp.settled.value # NULL
                   /\ lastOp.settled.value = Unmatched("ChatAgent").value
                   /\ Len(lastOp.settled.value.suggestions) > 0
                   /\ lastOp.handlers = <<>>
                   /\ lastOp.tasks = <<>>
                   /\ chat.pending = NULL)
    /\ [][(lastOp'.op = "processMessage" /\ Hits(lastOp'.router, lastOp'.text) = {})
              => UNCHANGED <<engineVars, taskVars>>]_vars

\* C21: any error raised while a matched handler runs is caught by
\* processMessage and returned as a response whose message is
\* "Error: <message>"; processMessage never rejects, whatever the text and
\* whatever the handler's outcome.
C21_HandlerErrorIsReturned ==
    lastOp.op = "processMessage"
        => /\ lastOp.settled.ok
           /\ (lastOp.handlers # <<>> /\ ~lastOp.outcome.ok)
                  => /\ Has(lastOp.settled.value, "message")
                     /\ lastOp.settled.value.message = "Error: " \o lastOp.outcome.message

\* whether the string s contains the string part
Contains(s, part) ==
    \E i \in 1..(Len(s) - Len(part) + 1) : SubSeq(s, i, i + Len(part) - 1) = part

\* the number of digits the string s ends with
RECURSIVE TrailingDigits(_)
TrailingDigits(s) ==
    IF Len(s) = 0 \/ ~IsDigit(SubSeq(s, Len(s), Len(s))) THEN 0
    ELSE 1 + TrailingDigits(SubSeq(s, 1, Len(s) - 1))

\* the number a suggestion ends with
TrailingNumber(s) == DigitsVal(SubSeq(s, Len(s) - TrailingDigits(s) + 1, Len(s)), 0)

\* whether n is floor(price * 0.95): n <= price * 0.95 < n + 1
IsFloorOf95Percent(n, price) == 100 * n <= 95 * price /\ 95 * price < 100 * (n + 1)

\* C26: for a message routed to the price-check handler whose price lookup
\* succeeds with price p and change24h c, the response's message contains the
\* recommendation derived from c and its first suggestion contains
\* floor(p * 0.95).
C26_PriceCheckAdvises ==
    (lastOp.op = "processMessage" /\ lastOp.handlers = <<"handlePriceCheck">>
     /\ lastOp.outcome.ok /\ Has(lastOp.outcome.value, "data"))
        => LET r == lastOp.router
               response == lastOp.outcome.value
               p == response.data.price
               c == response.data.change24h
               advice == IF c > 5 THEN "Consider Taking Profits"
                         ELSE IF c < -5 THEN "Potential Buying Opportunity"
                         ELSE "Market Stable"
           IN  /\ Contains(TextOf(r, response), advice)
               /\ TrailingDigits(response.suggestions[1]) > 0
               /\ IsFloorOf95Percent(TrailingNumber(response.suggestions[1]), p)
               /\ lastOp.settled.ok
               /\ r = "ChatAgent" => lastOp.settled.value = response
               /\ r = "CryptoMessageHandler"
                      => /\ Contains(lastOp.settled.value.content, advice)
                         /\ Contains(lastOp.settled.value.content,
                                     Bullet \o response.suggestions[1])

\* "check price of bitcoin" at price 50000 and change -6, and a price check
\* at price 2510, whose 95 percent is not whole
C26_Witness ==
    /\ lastOp.op = "processMessage"
    /\ lastOp.router = "ChatAgent"
    /\ lastOp.text = "check price of bitcoin"
    /\ lastOp.outcome.ok
    /\ Has(lastOp.outcome.value, "data")
    /\ lastOp.outcome.value.data.price = 50000
    /\ lastOp.outcome.value.data.change24h = -6
    /\ Contains(lastOp.settled.value.message, "Potential Buying Opportunity")
    /\ lastOp.settled.value.suggestions[1] = "set price alert for bitcoin at 47500"

====
